---- MODULE Spec2Model ----
(***************************************************************************)
(* speedy-vision: the SpeedyProgram kernel execution engine and its        *)
(* asynchronous pixel readback (tests/pipeline.js, speedy-program.js and   *)
(* gl-utils.js sections of the bundle).                                    *)
(*                                                                         *)
(* Two state machines share the graphics context (gl):                     *)
(*   SpecReadback  readPixelsAsync / readPixelsSync, the two PBO queues,   *)
(*                 the polling timers and the copy fences;                 *)
(*   SpecProgram   _call / resize of one program with its output policy.   *)
(***************************************************************************)
EXTENDS Integers, Sequences, FiniteSets, TLC

(***************************************************************************)
(* Bounds of the model                                                     *)
(***************************************************************************)
\* largest descriptor size of the codec, in 4-byte words
MaxDescriptorWords == 1

\* largest number of pixels of an image given to the encoders
MaxPixels == 3

\* largest value of maxIterations given to the offset pass
MaxIterations == 1

\* largest encoder length the codec is run with
MaxLength == 4

\* largest small expected keypoint count of a capacity request
MaxExpected == 20

\* largest number of stages of a composed program
MaxStages == 5

\* number of distinct pixel values of the image a stage works on
MaxColors == 3

\* number of times the getter of one declared name is called
MaxAccesses == 3

\* number of readPixelsAsync() calls made on the program
MaxRequests == 3

\* largest width and height a program is constructed with or resized to
MaxSize == 2

\* largest texture handle gl.createTexture() hands out
MaxTextures == 6

\* the widths and the heights of the images given to SpeedyGPU
MaxBase == 7

\* the largest window of a bucket
MaxWindow == 9

\* the largest value of a window
MaxValue == 2

\* the largest state of a tuner, the smallest being 0
MaxState == 3

\* the state of least cost of the system a tuner controls
Target == 1

\* the resets of a tuner
MaxResets == 1

\* the dwells a tuner completes
MaxEpoch == 2

\* the largest number of dwells per temperature of an annealing tuner
MaxPerTemperature == 2

(***************************************************************************)
(* Program constants                                                       *)
(***************************************************************************)
\* const MAX_DESCRIPTOR_SIZE = 64; in bytes, must be divisible by 4
MAX_DESCRIPTOR_SIZE == 64

\* const MAX_KEYPOINT_SIZE = 8 + MAX_DESCRIPTOR_SIZE;
MAX_KEYPOINT_SIZE == 8 + MAX_DESCRIPTOR_SIZE

\* const MAX_PIXELS_PER_KEYPOINT = (MAX_KEYPOINT_SIZE / 4) | 0;
MAX_PIXELS_PER_KEYPOINT == MAX_KEYPOINT_SIZE \div 4

\* const MAX_ENCODER_LENGTH = 300;
MAX_ENCODER_LENGTH == 300

\* const MAX_KEYPOINTS
MAX_KEYPOINTS == (MAX_ENCODER_LENGTH * MAX_ENCODER_LENGTH) \div MAX_PIXELS_PER_KEYPOINT

\* const INITIAL_ENCODER_LENGTH = 128;
INITIAL_ENCODER_LENGTH == 128

\* PYRAMID_MAX_LEVELS: max depth in scale-space
PYRAMID_MAX_LEVELS == 4

\* _bucketSetup() of the tuners: "size": 4, "window": 3
BucketSize == 4
BucketWindow == 3

\* const PBO_COUNT = 1;
PBO_COUNT == 1

\* this._pixelBuffer = Array(PBO_COUNT).fill(null): no host buffer yet
NullBuffer == -1

\* _createPixelBuffer(): a fresh host buffer, "will be recognized as empty"
EmptyBuffer == 0

\* null: no texture (let outputTexture = null)
NullTex == 0

\* a texture that belongs to no program: the uploaded input image
ExternalTex == 1

\* shaderdecl.arguments of a one-image kernel
params == <<"image">>

Slots == 0 .. (PBO_COUNT - 1)
Requests == 1 .. MaxRequests

VARIABLES
    \* ---- the WebGL context
    lost,               \* gl.isContextLost()
    isFirefox,          \* navigator.userAgent.includes('Firefox')
    glError,            \* gl.getError() would return CONTEXT_LOST_WEBGL
    \* ---- SpeedyProgram: pixel readback
    pboProducerQueue,   \* this._pboProducerQueue: slots free for a copy
    pboConsumerQueue,   \* this._pboConsumerQueue: slots ready for pickup
    pixelBuffer,        \* this._pixelBuffer[slot]: NullBuffer, EmptyBuffer,
                        \*   or k >= 1: bytes read from the framebuffer when
                        \*   k requests had been made
    reqCount,           \* number of readPixelsAsync() calls so far
    prod,               \* producer half of request r: "none", "waiting"
                        \*   (waitForQueueNotEmpty), "copying" (readPixelsViaPBO
                        \*   pending), "done", "failed" (rejected), "skipped"
    cons,               \* consumer half of request r: "none", "waiting",
                        \*   "resolved"
    slotOf,             \* the slot request r took from the producer queue
    copyStamp,          \* reqCount when request r's gl.readPixels was issued
    fence,              \* the sync object of request r's copy is signalled
    delivered,          \* contents of the buffer request r resolved with
    lastCopy,           \* the request whose copy was last issued into a slot
    burstStart,         \* first request of the current synchronous run of calls
    burstOf,            \* burstStart when request r was made
    pixelBufferSize,    \* this._pixelBufferSize[0] * this._pixelBufferSize[1]:
                        \*   the pixels a host buffer holds; a larger size is
                        \*   a new Uint8Array in every slot
    destBuffer,         \* the pixels of the arrayBuffer given to
                        \*   readPixelsViaPBO() for the copy of request r:
                        \*   the host buffers of that size are its destination
    \* ---- SpeedyProgram / StandardProgram: invocation and resize
    options,            \* this._options: renderToTexture, recycleTexture, pingpong
    texture,            \* stdprog._texture: handles of the backing textures
    texIndex,           \* stdprog._texIndex
    nextTexture,        \* the handle the next gl.createTexture() returns
    width,              \* stdprog.width
    height,             \* stdprog.height
    dirtySize,          \* stdprog.dirtySize
    texSize,            \* value of the texSize uniform in the GL program
    callResult,         \* how the last _call() ended: "none", "returned",
                        \*   "lost" (returned on a lost context), "fatal"
    lastArgs,           \* arguments of the last _call()
    lastOut,            \* texture returned by the last _call()
    drew,               \* the last _call() issued gl.drawArrays
    selfRead,           \* the last _call() was given the program's own
                        \*   current output texture
    chained,            \* the last _call() was given the previous call's output
    lastGood,           \* backing texture holding the last rendered output
    pixels,             \* pixels[i]: the image of stdprog._texture[i - 1], a
                        \*   function from its pixel positions to values
    clones,             \* the clone textures handed out by the _call()s
                        \*   before the last one (released by the caller only)
    resizeResult,       \* how the resize() call ended that was the last
                        \*   operation on the program: "none" (it was not a
                        \*   resize), "lost" (returned on a lost context),
                        \*   "same" (no need to resize), "resized"
    \* ---- new SpeedyProgram(gl, shaderdecl, options)
    shaderdecl,         \* the ShaderDeclaration: uniforms detected in the
                        \*   source, arguments, and whether the source compiles
                        \*   and links
    ctorOptions,        \* the options the constructor was given
    program,            \* how the constructor ended: "none" (not called),
                        \*   "usable" (it returned a program), "GLError",
                        \*   "SpeedyError" (it threw)
    \* ---- SpeedyProgramGroup
    declared,           \* the names declare() has defined a getter for
    kernel,             \* this['__k_' + name]: 0 (undefined) or the instance,
                        \*   identified by the number of the construction
    constructions,      \* how often _createProgram() returned for a name
    accesses,           \* how often the getter of a name was called
    threw,              \* how often the getter of a name threw
    got,                \* the instances the getter of a name has returned
    \* ---- SpeedyProgramGroup.compose()
    composeFn,          \* fn: the names of the stages of the composed
                        \*   program, << >> while compose() was not called
    composeCall,        \* <<image, args>> of the last call of the composed
                        \*   program, << >> before the first
    composeResult,      \* its result: out, the value returned, and calls, the
                        \*   calls <<stage, image, args>> made, in order
    \* ---- GPUEncoders
    corners,            \* the image given to encodeKeypoints(): the red
                        \*   channel of its pixels in raster order (a pixel
                        \*   survived when it is not 0)
    imageSize,          \* <<this._width, this._height>>
    keypointEncoderLength, \* this._keypointEncoderLength
    descriptorSize,     \* the descriptor size, in bytes, the codec is used with
    maxIterations,      \* this._tuner.currentValue(): any admissible value
                        \*   after the tuner was fed or reset
    offsets,            \* the texture written by the offset pass: <<r, g>> of
                        \*   each pixel, << >> before the pass
    encodedKeypoints,   \* the encoder texture: the RGBA bytes of its pixels
                        \*   in raster order, << >> before the encoding
    hostPixels,         \* this._pixelBuffer[0] of the download program: the
                        \*   bytes given to the decoder
    bufferWritten,      \* a copy has written the host buffer
    keypoints,          \* what decodeKeypoints() returned last
    codecStage,         \* "idle", "encoded", "downloaded", "decoded",
                        \*   "fresh" (a download delivered a buffer no copy
                        \*   has written yet), "decodedFresh"
    capacityRequest,    \* <<keypointCount, descriptorSize>> of the last
                        \*   optimizeKeypointEncoder(), << >> before the first
    encoderSize,        \* <<width, height>> of the programs _encodeKeypoints,
                        \*   _downloadKeypoints and _orientEncodedKeypoints
    \* ---- SpeedyGPU
    gpuSize,            \* <<this._width, this._height>>
    pyramid,            \* this._pyramid: <<width, height>> of the program
                        \*   center of each level
    intraPyramid,       \* this._intraPyramid, likewise
    pyramidAccess,      \* <<accessor, level, result>> of the last call of
                        \*   pyramid(level) or intraPyramid(level), << >>
                        \*   before the first
    \* ---- Bucket
    win,                \* the window given to _median(), which sorts a part
                        \*   of it in place
    median,             \* what _median() returned, Undefined before the call
    \* ---- Tuner
    tuner,              \* the fields of the tuner, without the underscore
    tunerCall,          \* the last call: <<"new", class>>, <<"feedObservation",
                        \*   arguments>> or <<"reset">>, << >> before the first
    tunerLog,           \* fed: the observations put in the bucket of the
                        \*   state since it changed or the tuner was reset;
                        \*   dwells: the dwells completed since the
                        \*   temperature was multiplied or the tuner was
                        \*   constructed or reset
    \* ---- SpeedyPipeline
    operations,         \* this._operations of each pipeline
    pipelineCall,       \* the last call: <<"blur", p>>, <<"concat", p, q>>,
                        \*   <<"release", p>> or <<"convolve", p, kernel
                        \*   length, outcome>>, << >> before the first
    \* ---- FeatureDetectionAlgorithm
    automaticSensitivity, \* this._automaticSensitivity: << >> when null,
                        \*   else <<[expected, tolerance]>>
    algorithmCall       \* the last access of the property expected:
                        \*   <<"set", value, outcome>> or <<"get", result>>,
                        \*   << >> before the first

glVars == <<lost, isFirefox, glError>>
queueVars == <<pboProducerQueue, pboConsumerQueue>>
progVars == <<options, texture, texIndex, nextTexture, width, height,
              dirtySize, texSize, callResult, lastArgs, lastOut, drew,
              selfRead, chained, lastGood, pixels, clones, resizeResult>>
ctorVars == <<shaderdecl, ctorOptions, program>>
\* the state outside the program object under readback, invocation and resize
groupVars == <<declared, kernel, constructions, accesses, threw, got>>
composeVars == <<composeFn, composeCall, composeResult>>
codecVars == <<corners, imageSize, keypointEncoderLength, descriptorSize,
               maxIterations, offsets, encodedKeypoints, hostPixels, bufferWritten,
               keypoints, codecStage, capacityRequest, encoderSize>>
pyramidVars == <<gpuSize, pyramid, intraPyramid, pyramidAccess>>
medianVars == <<win, median>>
tunerVars == <<tuner, tunerCall, tunerLog>>
apiVars == <<operations, pipelineCall, automaticSensitivity, algorithmCall>>
outerVars == <<ctorVars, groupVars, composeVars, codecVars, pyramidVars, medianVars,
              tunerVars, apiVars>>
readVars == <<pboProducerQueue, pboConsumerQueue, pixelBuffer, reqCount,
              prod, cons, slotOf, copyStamp, fence, delivered, lastCopy,
              burstStart, burstOf, pixelBufferSize, destBuffer>>
vars == <<lost, isFirefox, glError, pboProducerQueue, pboConsumerQueue,
          pixelBuffer, reqCount, prod, cons, slotOf, copyStamp, fence,
          delivered, lastCopy, burstStart, burstOf, pixelBufferSize, destBuffer,
          options, texture,
          texIndex, nextTexture, width, height, dirtySize, texSize,
          callResult, lastArgs, lastOut, drew, selfRead, chained, lastGood,
          pixels, clones, resizeResult, shaderdecl, ctorOptions, program,
          declared, kernel, constructions, accesses, threw, got,
          composeFn, composeCall, composeResult, corners, imageSize,
          keypointEncoderLength, descriptorSize, maxIterations, offsets,
          encodedKeypoints, hostPixels, bufferWritten, keypoints, codecStage,
          capacityRequest, encoderSize, gpuSize, pyramid, intraPyramid,
          pyramidAccess, win, median, tuner, tunerCall, tunerLog,
          operations, pipelineCall, automaticSensitivity, algorithmCall>>

(***************************************************************************)
(* Helpers                                                                 *)
(***************************************************************************)
Range(q) == { q[i] : i \in 1 .. Len(q) }

Count(q, s) == Cardinality({ i \in 1 .. Len(q) : q[i] = s })

\* Array(PBO_COUNT).fill(0).map((_, i) => i)
RECURSIVE Iota(_)
Iota(n) == IF n = 0 THEN << >> ELSE Append(Iota(n - 1), n - 1)

\* queue.shift(): the queue without its first element (mutant: nothing removed)
QueueShiftKeeps(q) == q

QueueShift(q) == IF q = << >> THEN q ELSE Tail(q)

\* this._pboProducerQueue.push(readyPBO), "enqueue AFTER resolve()"
\* (mutant: the slot is not given back)
ReturnSlotDropped(q, readyPBO) == q

ReturnSlot(q, readyPBO) == Append(q, readyPBO)

\* _reallocatePixelBuffers(width, height): this._pixelBufferSize afterwards,
\* as a number of pixels; no reallocation if(width * height <= the size)
ReallocatedSize(size, w, h) == IF w * h <= size THEN size ELSE w * h

\* _reallocatePixelBuffers() on first use: every null buffer becomes a fresh
\* buffer; allocated buffers keep their contents (copied over)
AllocatePixelBuffers(buf) ==
    [s \in Slots |-> IF buf[s] = NullBuffer THEN EmptyBuffer ELSE buf[s]]

\* gl.clientWaitSync(sync, flags, 0) for the copy of request r
\* (mutant: the fence is reported signalled as soon as the copy is issued)
ClientWaitSyncEager(r) ==
    IF lost THEN "WAIT_FAILED" ELSE "CONDITION_SATISFIED"

clientWaitSync(r) ==
    IF lost THEN "WAIT_FAILED"
    ELSE IF fence[r] THEN "CONDITION_SATISFIED"
    ELSE "TIMEOUT_EXPIRED"

Min(a, b) == IF a < b THEN a ELSE b

\* a texel no draw and no copy has written (texImage2D with null data)
Blank == 0

\* GLUtils.createTexture(gl, w, h): a blank texture of w x h pixels
CreateTexture(w, h) == [p \in (1 .. w) \X (1 .. h) |-> Blank]

\* the value the fragment shader writes at a pixel position
Shade(p) == p[1] + MaxSize * (p[2] - 1)

\* gl.viewport(0, 0, w, h); gl.drawArrays(): every pixel of the viewport that
\* lies in the bound texture is written
DrawArrays(tex, w, h) ==
    [p \in DOMAIN tex |-> IF p[1] <= w /\ p[2] <= h THEN Shade(p) ELSE tex[p]]

\* gl.copyTexSubImage2D(TEXTURE_2D, 0, 0, 0, 0, 0, w, h): the w x h region at
\* the origin of the bound framebuffer's image src is copied to the same
\* positions of dst (mutant: nothing is copied)
CopyTexSubImage2DNothing(dst, src, w, h) == dst

CopyTexSubImage2D(dst, src, w, h) ==
    [p \in DOMAIN dst |->
        IF p[1] <= w /\ p[2] <= h /\ p \in DOMAIN src THEN src[p] ELSE dst[p]]

(***************************************************************************)
(* GPUEncoders: the keypoint codec                                         *)
(***************************************************************************)
Max(a, b) == IF a > b THEN a ELSE b

\* Math.ceil(n / d) for integers n >= 0 and d > 0
Ceil(n, d) == (n + d - 1) \div d

\* Math.ceil(Math.sqrt(x / 100)) for an integer x >= 0: the least l in
\* lo .. hi whose square is at least x / 100, found by bisection
RECURSIVE CeilSqrt(_, _, _)
CeilSqrt(x, lo, hi) ==
    IF lo >= hi THEN lo
    ELSE LET mid == (lo + hi) \div 2
         IN  IF mid * mid * 100 >= x
             THEN CeilSqrt(x, lo, mid)
             ELSE CeilSqrt(x, mid + 1, hi)

\* an upper limit of the square roots taken
SqrtLimit == 2 * MAX_ENCODER_LENGTH

\* optimizeKeypointEncoder(): const pixelsPerKeypoint
PixelsPerKeypoint(size) == 2 + Ceil(size, 4)

\* optimizeKeypointEncoder(): const len, without the slack of 4 keypoints
EncoderLenNoSlack(keypointCount, size) ==
    LET clampedKeypointCount == Max(0, Min(keypointCount, MAX_KEYPOINTS))
    IN  CeilSqrt(105 * clampedKeypointCount * PixelsPerKeypoint(size),
                 0, SqrtLimit)

\* optimizeKeypointEncoder(): const len =
\*   Math.ceil(Math.sqrt((4 + clampedKeypointCount * 1.05) * pixelsPerKeypoint))
EncoderLen(keypointCount, size) ==
    LET clampedKeypointCount == Max(0, Min(keypointCount, MAX_KEYPOINTS))
    IN  CeilSqrt((400 + 105 * clampedKeypointCount) * PixelsPerKeypoint(size),
                 0, SqrtLimit)

\* optimizeKeypointEncoder(): const newEncoderLength = len, not clamped
NewEncoderLengthNoClamp(keypointCount, size) == EncoderLen(keypointCount, size)

\* optimizeKeypointEncoder(): const newEncoderLength
NewEncoderLength(keypointCount, size) ==
    Max(1, Min(EncoderLen(keypointCount, size), MAX_ENCODER_LENGTH))

\* descriptor sizes in bytes: "must be divisible by 4"
DescriptorSizes == { 4 * n : n \in 0 .. MaxDescriptorWords }

\* the descriptor sizes of a capacity request: any number of bytes, here the
\* smallest and the largest ones
DescriptorBytes ==
    (0 .. 4 * MaxDescriptorWords + 1)
        \cup ((MAX_DESCRIPTOR_SIZE - 4 * MaxDescriptorWords - 1) .. MAX_DESCRIPTOR_SIZE)

\* the expected keypoint counts of a capacity request
KeypointCounts ==
    (0 .. MaxExpected)
        \cup {MAX_KEYPOINTS - 1, MAX_KEYPOINTS, MAX_KEYPOINTS + 1, 2 * MAX_KEYPOINTS}

\* the encoder lengths of the model: those a capacity request sets
EncoderLengths ==
    { l \in 1 .. MaxLength :
        \E n \in 0 .. MaxLength : \E size \in DescriptorSizes :
            NewEncoderLength(n, size) = l }

\* new Uint8Array(n): n bytes, all 0. A typed array is kept as its length
\* and its head, the bytes written so far from its beginning; the bytes past
\* the head are 0
Uint8Array(n) == [length |-> n, head |-> << >>]

\* this._pixelBuffer[0] while it is null
NullPixels == Uint8Array(0)

\* a read past the end of a typed array
Undefined == -1

\* pixels[i]
ByteAt(bytes, i) ==
    IF i < Len(bytes.head) THEN bytes.head[i + 1]
    ELSE IF i < bytes.length THEN 0
    ELSE Undefined

\* _createPixelBuffer(width, height) without pixels.fill(255, 0, 4)
CreatePixelBufferZeroed(w, h) == Uint8Array(4 * w * h)

\* _createPixelBuffer(width, height): a zeroed Uint8Array whose first pixel
\* is 255, 255, 255, 255
CreatePixelBuffer(w, h) == [length |-> 4 * w * h, head |-> <<255, 255, 255, 255>>]

\* dst.set(src), src no longer than dst
Set(dst, src) ==
    [length |-> dst.length,
     head |-> [i \in 1 .. Max(Len(dst.head), Len(src.head)) |->
                 IF i <= src.length THEN ByteAt(src, i - 1) ELSE dst.head[i]]]

\* _reallocatePixelBuffers(width, height) of the download program: a buffer
\* large enough is kept; a new buffer receives the bytes of the old one
ReallocatePixelBuffers(buffer, w, h) ==
    IF 4 * w * h <= buffer.length THEN buffer
    ELSE IF buffer = NullPixels THEN CreatePixelBuffer(w, h)
    ELSE Set(CreatePixelBuffer(w, h), buffer)

\* pixelAt(image, pos): the pixel at <<x, y>> of an image stored in raster
\* order
PixelAt(image, size, pos) == image[pos[2] * size[1] + pos[1] + 1]

\* encode-keypoint-offsets.glsl: the while loop; the value of offset after it
RECURSIVE SkipLoop(_, _, _, _, _)
SkipLoop(image, size, maxIter, offset, pos) ==
    IF offset < maxIter /\ pos[2] < size[2] /\ PixelAt(image, size, pos) = 0
    THEN LET x == (pos[1] + 1) % size[1]
         IN  SkipLoop(image, size, maxIter, offset + 1,
                      <<x, pos[2] + (IF x = 0 THEN 1 ELSE 0)>>)
    ELSE offset

\* encode-keypoint-offsets.glsl: main() of every thread; each pixel of the
\* output is <<r, g>>, g the skip count as a byte
EncodeKeypointOffsets(image, size, maxIter) ==
    [j \in 1 .. size[1] * size[2] |->
        LET pos == <<(j - 1) % size[1], (j - 1) \div size[1]>>
        IN  <<image[j], Max(0, SkipLoop(image, size, maxIter, -1, pos))>>]

\* the result of findQthKeypoint() when it returns false
NotFound == [found |-> FALSE, position |-> <<0, 0>>, pixel |-> <<0, 0>>]

\* encode-keypoints.glsl: findQthKeypoint(q, position, pixel), its loop
\* entered with the counters i and p
RECURSIVE FindQthKeypoint(_, _, _, _, _)
FindQthKeypoint(image, size, q, i, p) ==
    LET position == <<i % size[1], i \div size[1]>>
    IN  IF ~(position[2] < size[2]) THEN NotFound
        ELSE LET pixel == PixelAt(image, size, position)
             IN  IF pixel[1] > 0 /\ p = q
                 THEN [found |-> TRUE, position |-> position, pixel |-> pixel]
                 ELSE FindQthKeypoint(image, size, q, i + 1 + pixel[2],
                                      IF pixel[1] > 0 THEN p + 1 ELSE p)

\* encode-keypoints.glsl: main() of the thread of raster index p; the RGBA
\* bytes it writes (scale and orientation, not modelled, are 0)
EncodePixel(image, size, encoderLength, descSize, p) ==
    LET d == 2 + descSize \div 4
        q == p \div d
        r == p % d
        kp == FindQthKeypoint(image, size, q, 0, 0)
    IN  IF ~kp.found THEN <<255, 255, 255, 255>>
        ELSE IF r = 0
             THEN <<kp.position[1] % 256, kp.position[1] \div 256,
                    kp.position[2] % 256, kp.position[2] \div 256>>
        ELSE IF r = 1 THEN <<0, 0, kp.pixel[1], 0>>
        ELSE <<0, 0, 0, 0>>

\* this._encodeKeypoints(offsets, imageSize, encoderLength, descriptorSize)
EncodeTexture(image, size, encoderLength, descSize) ==
    [t \in 1 .. encoderLength * encoderLength |->
        EncodePixel(image, size, encoderLength, descSize, t - 1)]

\* gl.readPixels of a whole texture: its RGBA bytes in raster order
ReadPixels(tex) ==
    [i \in 1 .. 4 * Len(tex) |-> tex[((i - 1) \div 4) + 1][((i - 1) % 4) + 1]]

\* ToInt32 of an operand of << and |
ToInt32(v) == IF v = Undefined THEN 0 ELSE v

\* decodeKeypoints(): i += 4 * pixelsPerKeypoint, pixelsPerKeypoint being
\* 2 + descriptorSize / 4
Stride(descSize) == 8 + descSize

\* decodeKeypoints(): x = (pixels[i+1] << 8) | pixels[i]
DecodeX(bytes, i) == ToInt32(ByteAt(bytes, i + 1)) * 256 + ToInt32(ByteAt(bytes, i))

\* decodeKeypoints(): y = (pixels[i+3] << 8) | pixels[i+2]
DecodeY(bytes, i) == ToInt32(ByteAt(bytes, i + 3)) * 256 + ToInt32(ByteAt(bytes, i + 2))

\* decodeKeypoints(): new SpeedyFeature(x, y, scale, rotation, score)
Feature(bytes, i) ==
    [x |-> DecodeX(bytes, i), y |-> DecodeY(bytes, i), score |-> ByteAt(bytes, i + 6)]

\* decodeKeypoints() with continue in the place of break
RECURSIVE DecodeLoopSkipping(_, _, _, _)
DecodeLoopSkipping(bytes, size, descSize, i) ==
    IF ~(i < bytes.length) THEN << >>
    ELSE IF DecodeX(bytes, i) >= size[1] \/ DecodeY(bytes, i) >= size[2]
         THEN DecodeLoopSkipping(bytes, size, descSize, i + Stride(descSize))
         ELSE <<Feature(bytes, i)>>
                \o DecodeLoopSkipping(bytes, size, descSize, i + Stride(descSize))

\* decodeKeypoints(): the for loop entered at byte i
RECURSIVE DecodeLoop(_, _, _, _)
DecodeLoop(bytes, size, descSize, i) ==
    IF ~(i < bytes.length) THEN << >>
    ELSE IF DecodeX(bytes, i) >= size[1] \/ DecodeY(bytes, i) >= size[2]
         THEN << >>
         ELSE <<Feature(bytes, i)>>
                \o DecodeLoop(bytes, size, descSize, i + Stride(descSize))

\* the sizes of the images given to the encoders
ImageSizes ==
    { size \in (1 .. MaxPixels) \X (1 .. MaxPixels) : size[1] * size[2] <= MaxPixels }

\* the images of a given size: each pixel survived (r > 0) or not (r = 0)
ImagesOf(size) == [1 .. size[1] * size[2] -> {0, 1}]

\* the programs of the encoders that are declared with the texture size of
\* the encoder
EncoderPrograms == {"_encodeKeypoints", "_downloadKeypoints", "_orientEncodedKeypoints"}

\* hasTextureSize(length, length) of each of them
EncodersOfLength(length) == [p \in EncoderPrograms |-> <<length, length>>]

\* SpeedyProgram.resize(width, height) never takes place
\* (mutant: the program keeps its size)
ResizedProgramNever(size, w, h, isContextLost) == size

\* SpeedyProgram.resize(width, height) of a program of the given size: the
\* size of the program after the call
ResizedProgram(size, w, h, isContextLost) ==
    IF isContextLost THEN size ELSE <<Max(1, w), Max(1, h)>>

\* no encoder takes part
NoEncoders ==
    /\ corners = << >>
    /\ imageSize = <<MaxSize, MaxSize>>
    /\ keypointEncoderLength = INITIAL_ENCODER_LENGTH
    /\ descriptorSize = 0
    /\ maxIterations = 1
    /\ offsets = << >>
    /\ encodedKeypoints = << >>
    /\ hostPixels = NullPixels
    /\ bufferWritten = FALSE
    /\ keypoints = << >>
    /\ codecStage = "idle"
    /\ capacityRequest = << >>
    /\ encoderSize = EncodersOfLength(INITIAL_ENCODER_LENGTH)

\* gl.readPixels(0, 0, width, height, ..., buffer): the bytes of the texture
\* are written at the beginning of the buffer, the rest of it is left alone
ReadPixelsInto(buffer, tex) ==
    [length |-> buffer.length,
     head |-> [i \in 1 .. Max(4 * Len(tex), Len(buffer.head)) |->
                 IF i <= 4 * Len(tex) THEN ReadPixels(tex)[i] ELSE buffer.head[i]]]

\* readPixelsViaPBO(): gl.bufferData gives the buffer object a zeroed store
\* as large as the host buffer, gl.readPixels writes the bytes of the texture
\* at its beginning, and gl.getBufferSubData copies all of it to the host
ReadPixelsViaPBO(buffer, tex) ==
    [length |-> buffer.length, head |-> ReadPixels(tex)]

\* encodeKeypoints(corners, descriptorSize): the offset pass, then the
\* encoding pass
EncodeKeypoints ==
    /\ codecStage \in {"idle", "decoded", "decodedFresh"}
    /\ offsets' = EncodeKeypointOffsets(corners, imageSize, maxIterations)
    /\ encodedKeypoints' =
          EncodeTexture(offsets', imageSize, keypointEncoderLength, descriptorSize)
    /\ codecStage' = "encoded"
    /\ UNCHANGED <<corners, imageSize, keypointEncoderLength, descriptorSize,
                   maxIterations, hostPixels, bufferWritten, keypoints,
                   capacityRequest, encoderSize>>
    /\ UNCHANGED <<glVars, readVars, progVars, ctorVars, groupVars, composeVars, pyramidVars, medianVars, tunerVars, apiVars>>

\* downloadEncodedKeypoints(encodedKeypoints, useAsyncTransfer), resolved
\* with the bytes of a copy of this texture: the host buffer is allocated if
\* there is none (readPixelsSync, readPixelsAsync)
DownloadEncodedKeypoints(useAsyncTransfer) ==
    /\ codecStage = "encoded"
    /\ LET buffer == ReallocatePixelBuffers(hostPixels, keypointEncoderLength,
                                            keypointEncoderLength)
       IN  hostPixels' = IF useAsyncTransfer
                         THEN ReadPixelsViaPBO(buffer, encodedKeypoints)
                         ELSE ReadPixelsInto(buffer, encodedKeypoints)
    /\ bufferWritten' = TRUE
    /\ codecStage' = "downloaded"
    \* this._tuner.feedObservation(downloadTime)
    /\ maxIterations' \in 1 .. MaxIterations
    /\ UNCHANGED <<corners, imageSize, keypointEncoderLength, descriptorSize,
                   offsets, encodedKeypoints, keypoints, capacityRequest, encoderSize>>
    /\ UNCHANGED <<glVars, readVars, progVars, ctorVars, groupVars, composeVars, pyramidVars, medianVars, tunerVars, apiVars>>

\* downloadEncodedKeypoints(), resolved by readPixelsAsync() with a host
\* buffer that no copy has written yet
DownloadFresh ==
    /\ codecStage = "idle"
    /\ ~bufferWritten
    /\ hostPixels' = ReallocatePixelBuffers(hostPixels, keypointEncoderLength,
                                            keypointEncoderLength)
    /\ codecStage' = "fresh"
    \* this._tuner.feedObservation(downloadTime)
    /\ maxIterations' \in 1 .. MaxIterations
    /\ UNCHANGED <<corners, imageSize, keypointEncoderLength, descriptorSize,
                   offsets, encodedKeypoints, bufferWritten, keypoints,
                   capacityRequest, encoderSize>>
    /\ UNCHANGED <<glVars, readVars, progVars, ctorVars, groupVars, composeVars, pyramidVars, medianVars, tunerVars, apiVars>>

\* decodeKeypoints(pixels, descriptorSize), given the host buffer
DecodeKeypoints ==
    /\ codecStage \in {"fresh", "downloaded"}
    /\ keypoints' = DecodeLoop(hostPixels, imageSize, descriptorSize, 0)
    /\ codecStage' = IF codecStage = "fresh" THEN "decodedFresh" ELSE "decoded"
    \* if(keypoints.length == 0) { if(this._tuner.finished()) this._tuner.reset(); }
    /\ maxIterations' \in IF keypoints' = << >> THEN 1 .. MaxIterations
                          ELSE {maxIterations}
    /\ UNCHANGED <<corners, imageSize, keypointEncoderLength, descriptorSize,
                   offsets, encodedKeypoints, hostPixels, bufferWritten,
                   capacityRequest, encoderSize>>
    /\ UNCHANGED <<glVars, readVars, progVars, ctorVars, groupVars, composeVars, pyramidVars, medianVars, tunerVars, apiVars>>

\* optimizeKeypointEncoder(keypointCount, descriptorSize), between two
\* frames: the three programs are resized with the encoder, unless the
\* context is lost
OptimizeKeypointEncoder(keypointCount, size) ==
    /\ codecStage \in {"idle", "decoded", "decodedFresh"}
    /\ keypointEncoderLength' = NewEncoderLength(keypointCount, size)
    /\ capacityRequest' = <<keypointCount, size>>
    /\ encoderSize' =
          IF keypointEncoderLength' # keypointEncoderLength
          THEN [p \in EncoderPrograms |->
                  ResizedProgram(encoderSize[p], keypointEncoderLength',
                                 keypointEncoderLength', lost)]
          ELSE encoderSize
    \* resize(): this._reallocatePixelBuffers(width, height), when the size
    \* of the program changes
    /\ hostPixels' =
          IF encoderSize'["_downloadKeypoints"] # encoderSize["_downloadKeypoints"]
          THEN ReallocatePixelBuffers(hostPixels, encoderSize'["_downloadKeypoints"][1],
                                      encoderSize'["_downloadKeypoints"][2])
          ELSE hostPixels
    /\ codecStage' = "idle"
    /\ UNCHANGED <<corners, imageSize, descriptorSize, maxIterations, offsets,
                   encodedKeypoints, bufferWritten, keypoints>>
    /\ UNCHANGED <<glVars, readVars, progVars, ctorVars, groupVars, composeVars, pyramidVars, medianVars, tunerVars, apiVars>>

(***************************************************************************)
(* Bucket: the median of a window                                          *)
(***************************************************************************)
\* no median is computed
NoMedian ==
    /\ win = << >>
    /\ median = Undefined

\* if(v[i] > v[j]) [v[i], v[j]] = [v[j], v[i]], the indices from 0
CompareSwap(v, i, j) ==
    IF v[i + 1] > v[j + 1]
    THEN [v EXCEPT ![i + 1] = v[j + 1], ![j + 1] = v[i + 1]]
    ELSE v

\* _median(): the comparisons of case 3, case 5 and case 7, without the last
\* (mutant: one comparison is missing)
ComparisonsButLast(length) ==
    CASE length = 3 -> <<(<<0, 1>>), <<1, 2>>>>
      [] length = 5 -> <<(<<0, 1>>), <<3, 4>>, <<0, 3>>, <<1, 4>>, <<1, 2>>, <<2, 3>>>>
      [] length = 7 -> <<(<<0, 5>>), <<0, 3>>, <<1, 6>>, <<2, 4>>, <<0, 1>>, <<3, 5>>,
                         <<2, 6>>, <<2, 3>>, <<3, 6>>, <<4, 5>>, <<1, 4>>, <<1, 3>>>>

\* _median(): the comparisons of case 3, case 5 and case 7, in order
Comparisons(length) ==
    CASE length = 3 -> <<(<<0, 1>>), <<1, 2>>, <<0, 1>>>>
      [] length = 5 -> <<(<<0, 1>>), <<3, 4>>, <<0, 3>>, <<1, 4>>, <<1, 2>>, <<2, 3>>,
                         <<1, 2>>>>
      [] length = 7 -> <<(<<0, 5>>), <<0, 3>>, <<1, 6>>, <<2, 4>>, <<0, 1>>, <<3, 5>>,
                         <<2, 6>>, <<2, 3>>, <<3, 6>>, <<4, 5>>, <<1, 4>>, <<1, 3>>,
                         <<3, 4>>>>

\* the window after the comparisons from the n-th on
RECURSIVE Compare(_, _, _)
Compare(v, comparisons, n) ==
    IF n > Len(comparisons) THEN v
    ELSE Compare(CompareSwap(v, comparisons[n][1], comparisons[n][2]), comparisons, n + 1)

\* v.sort((a, b) => a - b): x is put in its place in the sorted sequence
RECURSIVE InsertSorted(_, _)
InsertSorted(sorted, x) ==
    IF sorted = << >> \/ x < Head(sorted) THEN <<x>> \o sorted
    ELSE <<Head(sorted)>> \o InsertSorted(Tail(sorted), x)

RECURSIVE Sorted(_)
Sorted(v) == IF v = << >> THEN << >> ELSE InsertSorted(Sorted(Tail(v)), Head(v))

\* _median(v): the window when the routine returns
MedianWindow(v) ==
    IF Len(v) \in {3, 5, 7} THEN Compare(v, Comparisons(Len(v)), 1)
    ELSE IF Len(v) = 1 THEN v
    ELSE Sorted(v)

\* _median(v): the value returned, of a window of odd length (the two
\* elements of the default case are then the same one)
MedianValue(v) ==
    IF Len(v) \in {1, 3, 5, 7} THEN MedianWindow(v)[(Len(v) \div 2) + 1]
    ELSE (MedianWindow(v)[((Len(v) - 1) \div 2) + 1] + MedianWindow(v)[(Len(v) \div 2) + 1]) \div 2

\* this._median(win)
Median ==
    /\ median = Undefined
    /\ win # << >>
    /\ median' = MedianValue(win)
    /\ win' = MedianWindow(win)
    /\ UNCHANGED <<glVars, readVars, progVars, ctorVars, groupVars, composeVars,
                   codecVars, pyramidVars, tunerVars, apiVars>>

(***************************************************************************)
(* Bucket and the tuners                                                   *)
(***************************************************************************)
\* _window(i): the position in the raw data of the element at offset k of
\* the window of i, reflected at the head and at the tail
WindowPosition(bucket, i, k) ==
    LET head == bucket.head
        tail == (head + 1) % BucketSize
        pos == i + k
        reflected == IF i <= head
                     THEN (IF pos > head THEN head + (head - pos) ELSE pos)
                     ELSE (IF pos < tail THEN tail + (tail - pos) ELSE pos)
    IN  IF reflected < 0 THEN reflected + BucketSize
        ELSE IF reflected >= BucketSize THEN reflected - BucketSize
        ELSE reflected

\* _window(i)
Window(bucket, i) ==
    [j \in 1 .. BucketWindow |->
        bucket.rawData[WindowPosition(bucket, i, j - 1 - (BucketWindow \div 2)) + 1]]

\* _smooth(): this._smoothedData
SmoothedData(bucket) == [i \in 1 .. BucketSize |-> MedianValue(Window(bucket, i - 1))]

RECURSIVE SumOf(_, _)
SumOf(v, n) == IF n = 0 THEN 0 ELSE v[n] + SumOf(v, n - 1)

\* _smooth(): the bucket with this._average before the division by the size
\* of the bucket, which the getters compute from the data when it has changed
Smooth(bucket) ==
    [rawData |-> bucket.rawData, head |-> bucket.head,
     total |-> SumOf(SmoothedData(bucket), BucketSize)]

\* new Float32Array(this._bucketSize).fill(0), the head on the last slot
NewBucket ==
    Smooth([rawData |-> [i \in 1 .. BucketSize |-> 0], head |-> BucketSize - 1])

\* put(value)
Put(bucket, value) ==
    LET head == (bucket.head + 1) % BucketSize
    IN  Smooth([rawData |-> [bucket.rawData EXCEPT ![head + 1] = value], head |-> head])

\* fill(value): the raw data, the smoothed data and the average are the value
Fill(bucket, value) ==
    [rawData |-> [i \in 1 .. BucketSize |-> value], head |-> BucketSize - 1,
     total |-> BucketSize * value]

\* the sum of the smoothed data: two averages compare as these sums do
Total(bucket) == bucket.total

\* get average(): the sum is a multiple of the size when the bucket holds
\* one value
Average(bucket) == Total(bucket) \div BucketSize

\* Infinity and null
Infinity == -2
Null == << >>

\* the states of a tuner of [MinState, MaxState]
MinState == 0
States == MinState .. MaxState

\* Math.max(this._minState, Math.min(s | 0, this._maxState))
Clip(s) == Max(MinState, Min(s, MaxState))

\* _bucketOf(state)
BucketOf(t, state) == t.bucket[Clip(state)]

\* const f = (s) => this._bucketOf(s).average, as the sum of the bucket
F(t, s) == Total(BucketOf(t, s))

\* no tuner is constructed
NoTuner == [kind |-> "none"]

\* Tuner.constructor() without the clamping of the initial state
TunerUnclamped(kind, initialState) ==
    [kind |-> kind,
     state |-> initialState,
     prevState |-> initialState,
     prevPrevState |-> initialState,
     initialState |-> initialState,
     bucket |-> [s \in States |-> NewBucket],
     iterations |-> 0,
     epoch |-> 0,
     costOfBestState |-> Undefined]

\* Tuner.constructor(initialState, minState, maxState)
\* (mutant: the initial state is not clamped)
Tuner(kind, initialState) ==
    [kind |-> kind,
     state |-> Clip(initialState),
     prevState |-> Clip(initialState),
     prevPrevState |-> Clip(initialState),
     initialState |-> Clip(initialState),
     bucket |-> [s \in States |-> NewBucket],
     iterations |-> 0,
     epoch |-> 0,
     costOfBestState |-> Undefined]

\* Tuner.currentValue()
CurrentValue(t) == t.state

\* TestTuner.constructor(minState, maxState)
TestTuner == Tuner("TestTuner", MinState)

\* StochasticTuner.constructor(initialState, minState, maxState, alpha,
\* maxIterationsPerTemperature, initialTemperature): alpha is the fraction
\* <<numerator, denominator>>, the initial temperature a multiple of 1e-5,
\* and the temperature is kept as the number of times the initial
\* temperature was multiplied by alpha
StochasticTuner(initialState, alpha, maxIterationsPerTemperature, initialTemperature) ==
    [Tuner("StochasticTuner", initialState) EXCEPT !.costOfBestState = Infinity]
        @@ [bestState |-> Clip(initialState),
            initialTemperature |-> initialTemperature,
            temperature |-> 0,
            numIterations |-> 0,
            maxIterationsPerTemperature |-> Max(1, maxIterationsPerTemperature),
            alpha |-> alpha]

\* SensitivityTuner.constructor(minState, maxState), the initial state drawn
\* around the middle of the interval
SensitivityTuner(initialState) ==
    LET t == Tuner("SensitivityTuner", initialState)
    IN  t @@ [bestState |-> t.initialState,
              expected |-> Null,
              lastObservation |-> 0]

\* Tuner.reset() without this._iterations = 0
\* (mutant: the iteration counter is kept)
TunerResetKeepingCount(t) ==
    [t EXCEPT !.state = t.initialState,
              !.prevState = t.initialState,
              !.prevPrevState = t.initialState,
              !.epoch = 0]

\* Tuner.reset()
TunerReset(t) ==
    [t EXCEPT !.state = t.initialState,
              !.prevState = t.initialState,
              !.prevPrevState = t.initialState,
              !.iterations = 0,
              !.epoch = 0]

\* StochasticTuner.reset()
StochasticReset(t) ==
    [t EXCEPT !.temperature = 0, !.numIterations = 0]

\* SensitivityTuner.reset()
SensitivityReset(t) == [TunerReset(t) EXCEPT !.expected = Null]

\* reset() of the tuner
Reset(t) ==
    CASE t.kind = "StochasticTuner" -> StochasticReset(t)
      [] t.kind = "SensitivityTuner" -> SensitivityReset(t)
      [] OTHER -> TunerReset(t)

RECURSIVE Power(_, _)
Power(x, n) == IF n = 0 THEN 1 ELSE x * Power(x, n - 1)

\* this._temperature *= this._alpha is left out
\* (mutant: the temperature stays the initial one)
TemperatureKept(t) == <<t.initialTemperature, 1>>

\* this._temperature, a fraction of 1e-5: the initial temperature multiplied
\* by alpha as many times as the tuner has recorded
Temperature(t) ==
    IF t.temperature > 0 /\ t.alpha[1] = 0 THEN <<0, 1>>
    ELSE <<t.initialTemperature * Power(t.alpha[1], t.temperature),
           Power(t.alpha[2], t.temperature)>>

\* a temperature at most 1e-5 is not told from a larger one
\* (mutant: the annealing never finishes)
ColdNever(t) == FALSE

\* StochasticTuner.finished(): this._temperature <= 1e-5
Cold(t) == Temperature(t)[1] <= Temperature(t)[2]

\* Math.exp(-(difference of the averages) / this._temperature) is 0, from
\* about -745.1 on, the averages given as sums: no Math.random() is less
Underflows(difference, t) ==
    difference * 3355 > (100 * Temperature(t)[1]) \div Temperature(t)[2]

\* SensitivityTuner.finished(), the tolerance 0.1: the root of the average of
\* the best state, times |expected|, is at most the tolerance times expected
SensitivityFinished(t) ==
    IF t.expected = Null THEN TRUE
    ELSE IF t.expected[1] < 0 THEN FALSE
    ELSE 100 * F(t, t.bestState) <= BucketSize

\* finished()
Finished(t) ==
    CASE t.kind = "StochasticTuner" -> Cold(t)
      [] t.kind = "SensitivityTuner" -> SensitivityFinished(t)
      [] OTHER -> FALSE

\* TestTuner._nextState()
TestNextState(t) ==
    [next |-> IF t.state + 1 > MaxState THEN MinState ELSE t.state + 1, tuner |-> t]

\* if(this.finished()) return this._state
\* (mutant: a finished tuner keeps the state it presents)
FinishedStateKept(t) == t.state

\* StochasticTuner._nextState(): if(this.finished()) return this._bestState
FinishedState(t) == t.bestState

\* StochasticTuner._nextState(), the neighbor picked and the outcome of
\* Math.random() < Math.exp(...) drawn
StochasticNextState(t, draw) ==
    IF Cold(t) THEN [next |-> FinishedState(t), tuner |-> t]
    ELSE
        LET neighbor == Clip(draw.neighbor)
            nextState == IF F(t, neighbor) < F(t, t.state) THEN neighbor
                         ELSE IF draw.accept THEN neighbor
                         ELSE t.state
            best == IF t.costOfBestState = Infinity
                          \/ F(t, nextState) < t.costOfBestState
                    THEN [t EXCEPT !.bestState = nextState,
                                   !.costOfBestState = F(t, nextState)]
                    ELSE t
            cool == t.numIterations + 1 >= t.maxIterationsPerTemperature
        IN  [next |-> nextState,
             tuner |-> [best EXCEPT
                          !.temperature = IF cool THEN @ + 1 ELSE @,
                          !.numIterations = IF cool THEN 0 ELSE @ + 1]]

\* the outcomes Math.random() < Math.exp((f(state) - f(neighbor)) / temperature)
\* can have: true when the averages are the same, false when the
\* exponential is 0, any otherwise
Outcomes(t, neighbor) ==
    IF Cold(t) \/ F(t, neighbor) < F(t, t.state) THEN {TRUE}
    ELSE IF F(t, neighbor) = F(t, t.state) THEN {TRUE}
    ELSE IF Underflows(F(t, neighbor) - F(t, t.state), t) THEN {FALSE}
    ELSE BOOLEAN

\* SensitivityTuner._nextState(): Math.round(state + direction * weight *
\* stepSize) can be state + k (direction 1) or state - k (direction -1), the
\* step being learningRate * sqrt(average) * |maxState| with the learning
\* rate 0.05 and the weight from 0.15 to 1.85
Reaches(t, direction, k) ==
    LET square == MaxState * MaxState * F(t, t.state)
        \* 1.85 * step against k - 1/2, and 0.15 * step against k + 1/2
        most == 1369 * square
        least == 9 * square
        low == 160000 * (2 * k - 1) * (2 * k - 1)
        high == 160000 * (2 * k + 1) * (2 * k + 1)
    IN  IF direction = 1
        THEN (k = 0 \/ most >= low) /\ least < high
        ELSE (k = 0 \/ most > low) /\ least <= high

\* SensitivityTuner._nextState(), the direction and the length of the step
\* drawn
SensitivityNextState(t, draw) ==
    IF SensitivityFinished(t) THEN [next |-> t.bestState, tuner |-> t]
    ELSE
        LET best == IF F(t, t.state) < F(t, t.bestState)
                    THEN [t EXCEPT !.bestState = t.state] ELSE t
            newState == t.state + draw.direction * draw.distance
        IN  [next |-> IF newState > MaxState \/ newState < MinState
                      THEN best.bestState ELSE newState,
             tuner |-> best]

\* what _nextState() draws
NoDraw == [neighbor |-> MinState, accept |-> TRUE, direction |-> 1, distance |-> 0]
Draws(t) ==
    CASE t.kind = "StochasticTuner" ->
            {[NoDraw EXCEPT !.neighbor = n, !.accept = a] :
                n \in States, a \in BOOLEAN}
      [] t.kind = "SensitivityTuner" ->
            {[NoDraw EXCEPT !.direction = d, !.distance = k] :
                d \in {-1, 1}, k \in 0 .. MaxState + 1}
      [] OTHER -> {NoDraw}

\* the draw is one the tuner can make in _nextState()
CanDraw(t, draw) ==
    CASE t.kind = "StochasticTuner" -> draw.accept \in Outcomes(t, Clip(draw.neighbor))
      [] t.kind = "SensitivityTuner" ->
            SensitivityFinished(t) \/ Reaches(t, draw.direction, draw.distance)
      [] OTHER -> TRUE

\* _nextState()
NextState(t, draw) ==
    CASE t.kind = "StochasticTuner" -> StochasticNextState(t, draw)
      [] t.kind = "SensitivityTuner" -> SensitivityNextState(t, draw)
      [] OTHER -> TestNextState(t)

\* Tuner.feedObservation(y): if(this._epoch == 0) { ... }
InitializeBuckets(t) ==
    IF t.epoch # 0 THEN t
    ELSE [t EXCEPT !.bucket = [s \in States |-> Fill(t.bucket[s], Average(BucketOf(t, t.state)))],
                   \* the cost is kept as the sum of the bucket
                   !.costOfBestState = IF @ \in {Undefined, Infinity}
                                       THEN Total(BucketOf(t, t.state)) ELSE @]

\* Tuner.feedObservation(y): the tuner with the observation in the bucket of
\* its state
Observed(t, y) ==
    [t EXCEPT !.bucket[Clip(t.state)] = Put(@, y), !.iterations = @ + 1]

\* Tuner.feedObservation(y): ++this._iterations >= bucket.size
\* (mutant: the dwell is one observation longer)
DwellCompleteLate(t) == t.iterations > BucketSize

DwellComplete(t) == t.iterations >= BucketSize

\* Tuner.feedObservation(y), given what _nextState() draws
FeedObservation(t, y, draw) ==
    IF ~DwellComplete(Observed(t, y)) THEN Observed(t, y)
    ELSE LET chosen == NextState(InitializeBuckets(Observed(t, y)), draw)
         IN  [chosen.tuner EXCEPT !.state = Clip(chosen.next),
                                  !.prevState = t.state,
                                  !.prevPrevState = t.prevState,
                                  !.iterations = 0,
                                  !.epoch = @ + 1]

\* the draws _nextState() can make when the observation completes the
\* dwell, and none otherwise
Drawn(t, y) ==
    IF DwellComplete(Observed(t, y))
    THEN LET ready == InitializeBuckets(Observed(t, y))
         IN  {draw \in Draws(t) : CanDraw(ready, draw)}
    ELSE {NoDraw}

Abs(x) == IF x < 0 THEN -x ELSE x

\* SensitivityTuner.feedObservation(): const possibleNoise
PossibleNoise(t, obs) == Abs(obs) > 2 * Abs(t.lastObservation)

\* SensitivityTuner.feedObservation(): const err
Err(obs, expected) ==
    ((obs - expected) * (obs - expected)) \div (expected * expected)

\* SensitivityTuner.feedObservation(): if(expected !== this._expected)
\* this.reset(); this._expected = expected
Expecting(t, expected) ==
    [(IF <<expected>> # t.expected THEN Reset(t) ELSE t) EXCEPT !.expected = <<expected>>]

\* SensitivityTuner.feedObservation(): this._lastObservation = observedValue
Heard(t, obs, expected) == [Expecting(t, expected) EXCEPT !.lastObservation = obs]

\* SensitivityTuner.feedObservation(observedValue, expectedValue), given
\* what _nextState() draws
SensitivityFeedObservation(t, obs, expected, draw) ==
    IF PossibleNoise(t, obs) THEN Heard(t, obs, expected)
    ELSE FeedObservation(Heard(t, obs, expected), Err(obs, expected), draw)

\* the system under control: the value fed to feedObservation(y) when the
\* tuner presents x, a cost with one minimum
Cost(x) == (x - Target) * (x - Target)

\* the value observed by the caller of the sensitivity tuner when the tuner
\* presents x, and the values it expects
Response(x) == 4 * x + 2
ExpectedValues == {1, 2}

\* the arguments of new StochasticTuner(): alpha 0, 0.5 and 1, and the
\* initial temperatures 0, 2e-5 and 60
Alphas == {<<0, 1>>, <<1, 2>>, <<1, 1>>}
Temperatures == {0, 2, 6000000}

\* no tuner takes part
NoTuners ==
    /\ tuner = NoTuner
    /\ tunerCall = << >>
    /\ tunerLog = [fed |-> 0, dwells |-> 0, resets |-> 0]

\* the tuner is constructed
Constructs(t) ==
    /\ tuner = NoTuner
    /\ tuner' = t
    /\ tunerCall' = <<"new", t.kind>>
    /\ UNCHANGED tunerLog
    /\ UNCHANGED <<glVars, readVars, progVars, ctorVars, groupVars, composeVars,
                   codecVars, pyramidVars, medianVars, apiVars>>

\* new TestTuner(minState, maxState)
NewTestTuner == Constructs(TestTuner)

\* new StochasticTuner(initialState, minState, maxState, alpha,
\* maxIterationsPerTemperature, initialTemperature)
NewStochasticTuner(initialState, alpha, maxIterationsPerTemperature, initialTemperature) ==
    Constructs(StochasticTuner(initialState, alpha, maxIterationsPerTemperature,
                               initialTemperature))

\* new SensitivityTuner(minState, maxState)
NewSensitivityTuner(initialState) == Constructs(SensitivityTuner(initialState))

\* new GoldenSectionTuner(minState, maxState): the constructor calls reset(),
\* which reads xlo and xhi, names that nothing declares: a ReferenceError
NewGoldenSectionTuner ==
    /\ tuner = NoTuner
    /\ tunerCall = << >>
    /\ tunerCall' = <<"new", "GoldenSectionTuner", "ReferenceError">>
    /\ UNCHANGED <<tuner, tunerLog>>
    /\ UNCHANGED <<glVars, readVars, progVars, ctorVars, groupVars, composeVars,
                   codecVars, pyramidVars, medianVars, apiVars>>

\* the observations fed for the state since it changed or the tuner was
\* reset, the dwells completed since the temperature was multiplied or
\* the tuner was constructed or reset, and the resets of the tuner
Logged(before, after, fed) ==
    [fed |-> IF after.state # before.state THEN 0 ELSE tunerLog.fed + fed,
     dwells |-> IF after.epoch = before.epoch THEN tunerLog.dwells
                ELSE IF before.kind = "StochasticTuner"
                        /\ after.temperature # before.temperature THEN 0
                ELSE tunerLog.dwells + 1,
     resets |-> tunerLog.resets]

\* the tuner has something to reset
Resets(t) == Reset(t) # t

\* the log when the tuner is reset: the resets that changed it are counted
LoggedReset(fed) ==
    [fed |-> fed, dwells |-> 0,
     resets |-> IF Resets(tuner) THEN tunerLog.resets + 1 ELSE tunerLog.resets]

\* tuner.feedObservation(y) of a test tuner or of an annealing tuner
Feed(y) ==
    /\ tuner.kind \in {"TestTuner", "StochasticTuner"}
    /\ tuner.epoch < MaxEpoch
    /\ \E draw \in Drawn(tuner, y) : tuner' = FeedObservation(tuner, y, draw)
    /\ tunerCall' = <<"feedObservation", y>>
    /\ tunerLog' = Logged(tuner, tuner', 1)
    /\ UNCHANGED <<glVars, readVars, progVars, ctorVars, groupVars, composeVars,
                   codecVars, pyramidVars, medianVars, apiVars>>

\* tuner.feedObservation(observedValue, expectedValue) of a sensitivity tuner
FeedSensitivity(obs, expected) ==
    /\ tuner.kind = "SensitivityTuner"
    /\ IF <<expected>> = tuner.expected THEN tuner.epoch < MaxEpoch
       ELSE ~Resets(tuner) \/ tunerLog.resets < MaxResets
    /\ \E draw \in IF PossibleNoise(tuner, obs) THEN {NoDraw}
                    ELSE Drawn(Heard(tuner, obs, expected), Err(obs, expected)) :
          tuner' = SensitivityFeedObservation(tuner, obs, expected, draw)
    /\ tunerCall' = <<"feedObservation", obs, expected>>
    /\ tunerLog' =
          IF <<expected>> # tuner.expected
          THEN LoggedReset(IF PossibleNoise(tuner, obs) THEN 0 ELSE 1)
          ELSE Logged(tuner, tuner', IF PossibleNoise(tuner, obs) THEN 0 ELSE 1)
    /\ UNCHANGED <<glVars, readVars, progVars, ctorVars, groupVars, composeVars,
                   codecVars, pyramidVars, medianVars, apiVars>>

\* the system under control feeds the cost of the state the tuner presents
FeedCost == tuner.kind # "none" /\ Feed(Cost(tuner.state))

\* the caller of a sensitivity tuner feeds what it observes of the state the
\* tuner presents, with the value it expects
FeedResponse(expected) ==
    tuner.kind # "none" /\ FeedSensitivity(Response(tuner.state), expected)

\* tuner.reset()
ResetTuner ==
    /\ tuner.kind # "none"
    /\ ~Resets(tuner) \/ tunerLog.resets < MaxResets
    /\ tuner' = Reset(tuner)
    /\ tunerCall' = <<"reset">>
    /\ tunerLog' = LoggedReset(0)
    /\ UNCHANGED <<glVars, readVars, progVars, ctorVars, groupVars, composeVars,
                   codecVars, pyramidVars, medianVars, apiVars>>

\* the values a caller may pass as an observation, whatever the state the
\* tuner presents
Observations == {0, BucketSize}

\* the values a caller of a sensitivity tuner may observe
ObservedValues == {0, 4}

\* the initial states a caller may ask for, below and above the interval
InitialStates == {MinState - 1, MaxState + 1}

\* the dwells a tuner is fed arbitrary observations for
MaxDwells == 1

\* tuner.feedObservation(y) with any observation
FeedAny ==
    /\ tuner.kind # "none"
    /\ tuner.epoch < MaxDwells
    /\ \E y \in Observations : Feed(y)

\* tuner.feedObservation(observedValue, expectedValue) with any observation
FeedAnySensitivity ==
    /\ tuner.kind # "none"
    /\ tuner.epoch < MaxDwells
    /\ \E obs \in ObservedValues, expected \in ExpectedValues :
          FeedSensitivity(obs, expected)

(***************************************************************************)
(* SpeedyGPU: the pyramids of program centers                              *)
(***************************************************************************)
\* _buildPyramid(): ((1 + width) / 2) | 0 without the 1
\* (mutant: the size of the next level is rounded down)
NextLevelRoundedDown(length) == length \div 2

\* _buildPyramid(): width = ((1 + width) / 2) | 0, of a width that is not
\* negative: | 0 drops the fraction
NextLevel(length) == (1 + length) \div 2

\* _buildPyramid(): the sizes of the levels from the given one on
RECURSIVE Levels(_, _, _)
Levels(w, h, numLevels) ==
    IF numLevels = 0 THEN << >>
    ELSE <<(<<w, h>>)>> \o Levels(NextLevel(w), NextLevel(h), numLevels - 1)

\* _buildPyramid(imageWidth, imageHeight, baseScale, numLevels), the base
\* scale given in halves (2 for 1.0, 3 for 1.5): (imageWidth * scale) | 0
BuildPyramid(imageWidth, imageHeight, halves, numLevels) ==
    Levels((imageWidth * halves) \div 2, (imageHeight * halves) \div 2, numLevels)

\* _setupWebGL(): this._pyramid and this._intraPyramid
PyramidOf(size) == BuildPyramid(size[1], size[2], 2, PYRAMID_MAX_LEVELS)
IntraPyramidOf(size) == BuildPyramid(size[1], size[2], 3, PYRAMID_MAX_LEVELS + 1)

\* Utils.fatal(): the accessor throws
InvalidLevel == "fatal"

\* the pyramids of a SpeedyGPU of the idle size, no level accessed
NoPyramids ==
    /\ gpuSize = <<MaxSize, MaxSize>>
    /\ pyramid = PyramidOf(gpuSize)
    /\ intraPyramid = IntraPyramidOf(gpuSize)
    /\ pyramidAccess = << >>

\* pyramid(level), the level an integer: lv = level | 0 is the level
AccessPyramid(level) ==
    /\ pyramidAccess' =
          <<"pyramid", level,
            IF level < 0 \/ level >= PYRAMID_MAX_LEVELS
            THEN InvalidLevel ELSE pyramid[level + 1]>>
    /\ UNCHANGED <<gpuSize, pyramid, intraPyramid>>
    /\ UNCHANGED <<glVars, readVars, progVars, ctorVars, groupVars, composeVars,
                   codecVars, medianVars, tunerVars, apiVars>>

\* intraPyramid(level)
AccessIntraPyramid(level) ==
    /\ pyramidAccess' =
          <<"intraPyramid", level,
            IF level < 0 \/ level >= PYRAMID_MAX_LEVELS + 1
            THEN InvalidLevel ELSE intraPyramid[level + 1]>>
    /\ UNCHANGED <<gpuSize, pyramid, intraPyramid>>
    /\ UNCHANGED <<glVars, readVars, progVars, ctorVars, groupVars, composeVars,
                   codecVars, medianVars, tunerVars, apiVars>>

(***************************************************************************)
(* Init: the state after the constructor (_init, _initPixelBuffers)        *)
(***************************************************************************)
InitGL ==
    /\ lost = FALSE
    /\ isFirefox \in BOOLEAN
    /\ glError = FALSE

InitPixelBuffers ==
    /\ pixelBuffer = [s \in Slots |-> NullBuffer]
    /\ pboConsumerQueue = Iota(PBO_COUNT)
    /\ pboProducerQueue = << >>
    /\ reqCount = 0
    /\ prod = [r \in Requests |-> "none"]
    /\ cons = [r \in Requests |-> "none"]
    /\ slotOf = [r \in Requests |-> 0]
    /\ copyStamp = [r \in Requests |-> 0]
    /\ fence = [r \in Requests |-> FALSE]
    /\ delivered = [r \in Requests |-> NullBuffer]
    /\ lastCopy = [s \in Slots |-> 0]
    /\ burstStart = 1
    /\ burstOf = [r \in Requests |-> 0]
    /\ pixelBufferSize = 0
    /\ destBuffer = [r \in Requests |-> 0]

\* new SpeedyProgram(gl, shaderdecl, opts) with output size w x h:
\* StandardProgram(), then attachFBO(opts.pingpong) when rendering to texture
Constructed(opts, w, h) ==
    LET numTextures == IF ~opts.renderToTexture THEN 0
                       ELSE IF opts.pingpong THEN 2 ELSE 1
    IN
    /\ options = opts
    /\ texture = [i \in 1 .. numTextures |-> ExternalTex + i]
    /\ nextTexture = ExternalTex + numTextures + 1
    /\ texIndex = 0
    /\ width = w
    /\ height = h
    /\ dirtySize = FALSE
    /\ texSize = <<w, h>>
    /\ callResult = "none"
    /\ lastArgs = << >>
    /\ lastOut = NullTex
    /\ drew = FALSE
    /\ selfRead = FALSE
    /\ chained = FALSE
    /\ lastGood = NullTex
    /\ pixels = [i \in 1 .. numTextures |-> CreateTexture(w, h)]
    /\ clones = {}
    /\ resizeResult = "none"

\* the option sets _init() accepts: "Pingpong rendering can only be used when
\* rendering to textures"
ValidOptions ==
    { o \in [renderToTexture : BOOLEAN, recycleTexture : BOOLEAN, pingpong : BOOLEAN] :
        o.pingpong => o.renderToTexture }

\* the default options of _init()
DefaultOptions ==
    [renderToTexture |-> TRUE, recycleTexture |-> TRUE, pingpong |-> FALSE]

\* the declaration of a one-image kernel: uniform sampler2D image, and the
\* texSize uniform of the fragment shader prefix. A uniform is <<name, -1>>,
\* the element i of a uniform array is <<name, i>>
ImageKernel ==
    [uniforms |-> {<<"texSize", -1>>, <<"image", -1>>},
     arguments |-> params,
     compiles |-> TRUE]

\* names of the programs of a group
ProgramNames == {"f", "g"}

\* new SpeedyProgramGroup(gpu, width, height): nothing declared
InitGroup ==
    /\ declared = {}
    /\ kernel = [n \in ProgramNames |-> 0]
    /\ constructions = [n \in ProgramNames |-> 0]
    /\ accesses = [n \in ProgramNames |-> 0]
    /\ threw = [n \in ProgramNames |-> 0]
    /\ got = [n \in ProgramNames |-> {}]

\* the stage programs of the group
StageNames == {"blur", "scale", "invert"}

\* the values of the extra arguments of a call, taken as a whole
ArgValues == {0, 1}

\* the images a stage takes and returns
Images == 0 .. (MaxColors - 1)

\* no composed program is defined yet
InitCompose ==
    /\ composeFn = << >>
    /\ composeCall = << >>
    /\ composeResult = [out |-> 0, calls |-> << >>]

(***************************************************************************)
(* SpeedyPipeline                                                          *)
(***************************************************************************)
\* the pipelines of the concatenation test
Pipelines == {"pipeline", "pl"}

\* the filters of PipelineOperation.Blur
Filters == {"gaussian", "box"}

\* the default kernel size of PipelineOperation.Blur
DefaultBlurSize == 5

\* the operations a pipeline may hold at most
MaxOperations == 4

\* the longest kernel given to convolve()
MaxKernelLength == 50

\* b's elements before a's
ArrayConcatReversed(a, b) == b \o a

\* Array.prototype.concat: a new array, a's elements then b's, in order
ArrayConcat(a, b) ==
    [i \in 1 .. (Len(a) + Len(b)) |-> IF i <= Len(a) THEN a[i] ELSE b[i - Len(a)]]

\* get length
Length(p) == Len(operations[p])

\* _spawn(operation): the operation is pushed at the end
Spawn(ops, operation) == Append(ops, operation)

\* new PipelineOperation.Blur({filter}): this._filter is 'gauss' + size or
\* 'box' + size
BlurOperation(filter) ==
    <<IF filter = "gaussian" THEN "gauss" ELSE "box", DefaultBlurSize>>

\* blur({filter})
Blur(p, filter) ==
    /\ Length(p) < MaxOperations
    /\ operations' = [operations EXCEPT ![p] = Spawn(@, BlurOperation(filter))]
    /\ pipelineCall' = <<"blur", p>>
    /\ UNCHANGED <<automaticSensitivity, algorithmCall>>
    /\ UNCHANGED <<glVars, readVars, progVars, ctorVars, groupVars, composeVars,
                   codecVars, pyramidVars, medianVars, tunerVars>>

\* p.concat(q), q a SpeedyPipeline
Concat(p, q) ==
    /\ Length(p) + Length(q) <= MaxOperations
    /\ operations' =
          [operations EXCEPT ![p] = ArrayConcat(operations[p], operations[q])]
    /\ pipelineCall' = <<"concat", p, q>>
    /\ UNCHANGED <<automaticSensitivity, algorithmCall>>
    /\ UNCHANGED <<glVars, readVars, progVars, ctorVars, groupVars, composeVars,
                   codecVars, pyramidVars, medianVars, tunerVars>>

\* release(): this._operations.length = 0
Release(p) ==
    /\ operations' = [operations EXCEPT ![p] = << >>]
    /\ pipelineCall' = <<"release", p>>
    /\ UNCHANGED <<automaticSensitivity, algorithmCall>>
    /\ UNCHANGED <<glVars, readVars, progVars, ctorVars, groupVars, composeVars,
                   codecVars, pyramidVars, medianVars, tunerVars>>

\* Math.sqrt(len) | 0
FloorSqrt(len) == CHOOSE size \in 0 .. len : size * size <= len /\ (size + 1) * (size + 1) > len

\* a method for every size
HasMethodAlways(size) == TRUE

\* ({3: [...], 5: [...], 7: [...]})[size] || null is not null
HasMethod(size) == size \in {3, 5, 7}

\* new PipelineOperation.Convolve(kernel) calls Utils.fatal(), kernel an
\* array of len numbers
ConvolveThrows(len) ==
    LET size == FloorSqrt(len)
    IN  IF len = 1 THEN TRUE ELSE size * size # len \/ ~HasMethod(size)

\* convolve(kernel), kernel an array of len numbers: the constructor throws
\* before _spawn() is reached, or the operation is pushed
Convolve(p, len) ==
    /\ ConvolveThrows(len) \/ Length(p) < MaxOperations
    /\ operations' =
          IF ConvolveThrows(len) THEN operations
          ELSE [operations EXCEPT ![p] = Spawn(@, <<"convolve", FloorSqrt(len)>>)]
    /\ pipelineCall' =
          <<"convolve", p, len, IF ConvolveThrows(len) THEN "SpeedyError" ELSE "returned">>
    /\ UNCHANGED <<automaticSensitivity, algorithmCall>>
    /\ UNCHANGED <<glVars, readVars, progVars, ctorVars, groupVars, composeVars,
                   codecVars, pyramidVars, medianVars, tunerVars>>

\* new SpeedyPipeline(), no call yet
NoPipelines ==
    /\ operations = [p \in Pipelines |-> << >>]
    /\ pipelineCall = << >>

(***************************************************************************)
(* FeatureDetectionAlgorithm: the property expected                        *)
(***************************************************************************)
\* the largest number and tolerance assigned
MaxNumber == 3

\* the numbers and tolerances assigned
Numbers == 0 .. MaxNumber

\* the values assigned to expected, <<kind, number, tolerance>>: undefined,
\* null, a number, or an object with the own properties that are not Undefined
AssignedValues ==
    {<<"undefined", Undefined, Undefined>>, <<"null", Undefined, Undefined>>}
    \cup { <<"number", n, Undefined>> : n \in Numbers }
    \cup { <<"object", n, t>> : n \in Numbers \cup {Undefined},
                                t \in Numbers \cup {Undefined} }

\* new AutomaticSensitivity(downloader): its initial parameters are not
\* fixed by the sources at hand
NewControllers == [expected : Numbers, tolerance : Numbers]

\* set expected(expected) with expected !== undefined, on the controller c
SetParameters(c, value) ==
    IF value[1] = "object"
    THEN [expected |-> IF value[2] # Undefined THEN value[2] ELSE c.expected,
          tolerance |-> IF value[3] # Undefined THEN value[3] ELSE c.tolerance]
    ELSE [c EXCEPT !.expected = value[2]]

\* set expected(expected)
SetExpected(value) ==
    /\ \E c \in IF automaticSensitivity = Null THEN NewControllers
                ELSE {automaticSensitivity[1]} :
          automaticSensitivity' =
             IF value[1] = "undefined" THEN Null
             ELSE IF value[1] = "null" THEN <<c>>
             ELSE <<SetParameters(c, value)>>
    /\ algorithmCall' =
          <<"set", value, IF value[1] = "null" THEN "TypeError" ELSE "returned">>
    /\ UNCHANGED <<operations, pipelineCall>>
    /\ UNCHANGED <<glVars, readVars, progVars, ctorVars, groupVars, composeVars,
                   codecVars, pyramidVars, medianVars, tunerVars>>

\* get expected(): the properties of this._automaticSensitivity are read
\* when it is null
GetExpected ==
    /\ algorithmCall' =
          <<"get", IF automaticSensitivity = Null THEN <<"TypeError">>
                   ELSE <<"undefined">> >>
    /\ UNCHANGED automaticSensitivity
    /\ UNCHANGED <<operations, pipelineCall>>
    /\ UNCHANGED <<glVars, readVars, progVars, ctorVars, groupVars, composeVars,
                   codecVars, pyramidVars, medianVars, tunerVars>>

\* the constructor: this._automaticSensitivity = null
NoAlgorithm ==
    /\ automaticSensitivity = Null
    /\ algorithmCall = << >>

\* no pipeline holds an operation, automatic sensitivity is disabled
NoApi == NoPipelines /\ NoAlgorithm

\* the program under study was constructed from the one-image kernel
InitConstructed ==
    /\ shaderdecl = ImageKernel
    /\ ctorOptions = options
    /\ program = "usable"
    /\ InitGroup
    /\ InitCompose
    /\ NoEncoders
    /\ NoPyramids
    /\ NoMedian
    /\ NoTuners
    /\ NoApi

\* a program with the default options (the readback state machine)
Init ==
    /\ InitGL
    /\ InitPixelBuffers
    /\ Constructed(DefaultOptions, MaxSize, MaxSize)
    /\ InitConstructed

\* a program with any accepted options and output size (the browser plays no
\* part in _call() and resize(): one browser is enough)
InitProgram ==
    /\ InitGL
    /\ ~isFirefox
    /\ InitPixelBuffers
    /\ \E o \in ValidOptions : \E w, h \in 1 .. MaxSize : Constructed(o, w, h)
    /\ InitConstructed

(***************************************************************************)
(* readPixelsAsync()                                                       *)
(***************************************************************************)
\* the call is made by request r = reqCount + 1
ReadPixelsAsync ==
    /\ reqCount < MaxRequests
    /\ LET r == reqCount + 1 IN
       /\ reqCount' = r
       /\ burstOf' = [burstOf EXCEPT ![r] = burstStart]
       /\ UNCHANGED <<outerVars, burstStart, fence, glVars, progVars>>
       /\ IF lost
          THEN \* return Promise.resolve(this._pixelBuffer[0])
               /\ prod' = [prod EXCEPT ![r] = "skipped"]
               /\ cons' = [cons EXCEPT ![r] = "resolved"]
               /\ delivered' = [delivered EXCEPT ![r] = pixelBuffer[0]]
               /\ UNCHANGED <<queueVars, pixelBuffer, slotOf, copyStamp, lastCopy,
                              pixelBufferSize, destBuffer>>
          ELSE LET buf == AllocatePixelBuffers(pixelBuffer)
                   size == IF pixelBuffer[0] = NullBuffer
                           THEN ReallocatedSize(pixelBufferSize, width, height)
                           ELSE pixelBufferSize
                   produce == Len(pboProducerQueue) > 0
                   nextPBO == Head(pboProducerQueue)
                   pq1 == IF produce THEN QueueShift(pboProducerQueue)
                                     ELSE pboProducerQueue
                   consume == Len(pboConsumerQueue) > 0
                   readyPBO == Head(pboConsumerQueue)
               IN
               /\ pixelBuffer' = buf
               /\ pixelBufferSize' = size
               \* GPU needs to produce data
               /\ IF produce
                  THEN /\ prod' = [prod EXCEPT ![r] = "copying"]
                       /\ slotOf' = [slotOf EXCEPT ![r] = nextPBO]
                       /\ copyStamp' = [copyStamp EXCEPT ![r] = r]
                       /\ lastCopy' = [lastCopy EXCEPT ![nextPBO] = r]
                       /\ destBuffer' = [destBuffer EXCEPT ![r] = size]
                  ELSE /\ prod' = [prod EXCEPT ![r] = "waiting"]
                       /\ UNCHANGED <<slotOf, copyStamp, lastCopy, destBuffer>>
               \* CPU needs to consume data
               /\ IF consume
                  THEN /\ pboConsumerQueue' = QueueShift(pboConsumerQueue)
                       /\ cons' = [cons EXCEPT ![r] = "resolved"]
                       /\ delivered' = [delivered EXCEPT ![r] = buf[readyPBO]]
                       /\ pboProducerQueue' = ReturnSlot(pq1, readyPBO)
                  ELSE /\ cons' = [cons EXCEPT ![r] = "waiting"]
                       /\ pboProducerQueue' = pq1
                       /\ UNCHANGED <<pboConsumerQueue, delivered>>

\* gl.getBufferSubData(target, 0, destBuffer, 0, 0) of the copy of request r:
\* the bytes go to the array that was this._pixelBuffer[slot] when the copy
\* was issued; after a reallocation that array is no longer the one the slot
\* delivers
GetBufferSubData(buf, r) ==
    [s \in Slots |-> IF s = slotOf[r] /\ destBuffer[r] = pixelBufferSize
                      THEN copyStamp[r] ELSE buf[s]]

\* wait() with resolve() whatever the queue holds
waitForQueueNotEmptyAlways(queue) == TRUE

\* waitForQueueNotEmpty(queue): wait() runs in a timer task and resolves the
\* promise if(queue.length > 0); the continuation of the promise is the only
\* microtask of that task, so it runs before any other timer, completion or
\* request (mutant: the promise is resolved on an empty queue too)
waitForQueueNotEmpty(queue) == Len(queue) > 0

\* queue.shift(): the element removed, undefined when the queue is empty
Shifted(queue) == IF queue = << >> THEN Undefined ELSE Head(queue)

\* this._pixelBuffer[slot], undefined when the slot is
BufferOf(buf, slot) == IF slot \in Slots THEN buf[slot] ELSE Undefined

\* a timer of waitForQueueNotEmpty(this._pboProducerQueue) fires for request r;
\* on a non-empty queue the promise resolves and its continuation runs in the
\* same task: shift a slot and start readPixelsViaPBO()
WaitProducer(r) ==
    /\ prod[r] = "waiting"
    /\ burstStart' = reqCount + 1
    /\ UNCHANGED <<outerVars, progVars, glVars, pboConsumerQueue, pixelBuffer, reqCount, cons,
                   fence, delivered, burstOf, pixelBufferSize>>
    /\ IF waitForQueueNotEmpty(pboProducerQueue)
       THEN LET nextPBO == Shifted(pboProducerQueue) IN
            /\ pboProducerQueue' = QueueShift(pboProducerQueue)
            /\ prod' = [prod EXCEPT ![r] = "copying"]
            /\ slotOf' = [slotOf EXCEPT ![r] = nextPBO]
            /\ copyStamp' = [copyStamp EXCEPT ![r] = reqCount]
            /\ lastCopy' = [s \in Slots |-> IF s = nextPBO THEN r ELSE lastCopy[s]]
            /\ destBuffer' = [destBuffer EXCEPT ![r] = pixelBufferSize]
       ELSE \* setTimeout(wait, 0)
            UNCHANGED <<pboProducerQueue, prod, slotOf, copyStamp, lastCopy, destBuffer>>

\* the GPU finishes the copy of request r: its sync object becomes signalled
GpuCompletes(r) ==
    /\ prod[r] = "copying"
    /\ ~lost
    /\ ~fence[r]
    /\ fence' = [fence EXCEPT ![r] = TRUE]
    /\ burstStart' = reqCount + 1
    /\ UNCHANGED <<outerVars, progVars, glVars, queueVars, pixelBuffer, reqCount, prod, cons,
                   slotOf, copyStamp, delivered, lastCopy, burstOf, pixelBufferSize,
                   destBuffer>>

\* checkStatus() of clientWaitAsync() runs for the copy of request r; once the
\* fence is signalled getBufferSubDataAsync() copies the bytes into the host
\* buffer and readPixelsAsync()'s continuation pushes the slot
ClientWaitAsync(r) ==
    /\ prod[r] = "copying"
    /\ burstStart' = reqCount + 1
    /\ UNCHANGED <<outerVars, progVars, lost, isFirefox, pboProducerQueue, reqCount, cons, slotOf,
                   copyStamp, fence, delivered, lastCopy, burstOf, pixelBufferSize,
                   destBuffer>>
    /\ LET status == clientWaitSync(r) IN
       CASE status = "TIMEOUT_EXPIRED" ->
              \* Utils.setZeroTimeout(checkStatus)
              UNCHANGED <<glError, pboConsumerQueue, pixelBuffer, prod>>
         [] status = "WAIT_FAILED" /\ isFirefox /\ ~glError ->
              \* firefox bug? setZeroTimeout(checkStatus)
              UNCHANGED <<glError, pboConsumerQueue, pixelBuffer, prod>>
         [] status = "WAIT_FAILED" /\ ~(isFirefox /\ ~glError) ->
              \* reject(GLUtils.getError(gl)): nothing handles the rejection
              /\ glError' = FALSE
              /\ prod' = [prod EXCEPT ![r] = "failed"]
              /\ UNCHANGED <<pboConsumerQueue, pixelBuffer>>
         [] OTHER ->
              \* resolve(); gl.getBufferSubData(...); consumer queue push
              /\ pixelBuffer' = GetBufferSubData(pixelBuffer, r)
              /\ pboConsumerQueue' = Append(pboConsumerQueue, slotOf[r])
              /\ prod' = [prod EXCEPT ![r] = "done"]
              /\ UNCHANGED glError

\* a timer of waitForQueueNotEmpty(this._pboConsumerQueue) fires for request r;
\* on a non-empty queue: shift a slot, resolve with its buffer, give it back
WaitConsumer(r) ==
    /\ cons[r] = "waiting"
    /\ burstStart' = reqCount + 1
    /\ UNCHANGED <<outerVars, progVars, glVars, pixelBuffer, reqCount, prod, slotOf, copyStamp,
                   fence, lastCopy, burstOf, pixelBufferSize, destBuffer>>
    /\ IF waitForQueueNotEmpty(pboConsumerQueue)
       THEN LET readyPBO == Shifted(pboConsumerQueue) IN
            /\ pboConsumerQueue' = QueueShift(pboConsumerQueue)
            /\ cons' = [cons EXCEPT ![r] = "resolved"]
            /\ delivered' = [delivered EXCEPT ![r] = BufferOf(pixelBuffer, readyPBO)]
            /\ pboProducerQueue' = ReturnSlot(pboProducerQueue, readyPBO)
       ELSE \* setTimeout(wait, 0)
            UNCHANGED <<queueVars, cons, delivered>>

\* readPixelsSync(): one blocking gl.readPixels into this._pixelBuffer[0]
ReadPixelsSync ==
    /\ burstStart' = reqCount + 1
    /\ UNCHANGED <<outerVars, progVars, glVars, queueVars, reqCount, prod, cons, slotOf, copyStamp,
                   fence, delivered, lastCopy, burstOf, destBuffer>>
    /\ pixelBufferSize' = IF ~lost /\ pixelBuffer[0] = NullBuffer
                          THEN ReallocatedSize(pixelBufferSize, width, height)
                          ELSE pixelBufferSize
    /\ IF lost
       THEN UNCHANGED pixelBuffer
       ELSE pixelBuffer' =
              [AllocatePixelBuffers(pixelBuffer) EXCEPT ![0] =
                  IF reqCount = 0 THEN EmptyBuffer ELSE reqCount]

\* the browser loses the WebGL context
LoseContext ==
    /\ ~lost
    /\ lost' = TRUE
    /\ glError' = TRUE
    /\ burstStart' = reqCount + 1
    /\ UNCHANGED <<outerVars, progVars, isFirefox, queueVars, pixelBuffer, reqCount, prod, cons,
                   slotOf, copyStamp, fence, delivered, lastCopy, burstOf,
                   pixelBufferSize, destBuffer>>

(***************************************************************************)
(* _call() and resize()                                                    *)
(***************************************************************************)
\* stdprog.texture: this._texture ? this._texture[this._texIndex] : null
CurrentTexture == IF Len(texture) = 0 THEN NullTex ELSE texture[texIndex + 1]

\* _setUniform(): value === this._stdprog.texture
\* (mutant: the test is missing)
IsOwnOutputNever(value) == FALSE

IsOwnOutput(value) == value = CurrentTexture

\* _setUniform() of a sampler2D uniform ends in Utils.fatal()
SetUniformFatal(value) == IsOwnOutput(value) \/ value = NullTex

\* StandardProgram.prototype.pingpong: the index after the flip
\* (mutant: the index is not flipped)
PingpongKeeps(i) == i

Pingpong(i) == IF Len(texture) > 1 THEN 1 - i ELSE i

\* const cloneTexture = GLUtils.createTexture(...): a texture object that did
\* not exist before (mutant: the backing texture itself is handed out)
CloneTextureShared == CurrentTexture

CloneTexture == nextTexture

\* update texSize uniform: if(stdprog.dirtySize) gl.uniform2f(texSize, width,
\* height) (mutant: the uniform is never refreshed)
UpdateTexSizeNever == texSize

UpdateTexSize == IF dirtySize THEN <<width, height>> ELSE texSize

\* the textures a caller can pass: null, the input image, the program's own
\* backing textures, and what the last call returned
TexValues == {NullTex, ExternalTex, lastOut} \cup Range(texture)

\* Utils.fatal() inside _call(): the exception leaves the call
Fatal ==
    /\ callResult' = "fatal"
    /\ lastOut' = NullTex
    /\ drew' = FALSE
    /\ UNCHANGED <<texture, texIndex, nextTexture, lastGood, pixels>>

\* program(...args)
Call(args) ==
    /\ UNCHANGED <<outerVars, glVars, readVars, options, width, height>>
    /\ lastArgs' = args
    /\ resizeResult' = "none"
    /\ clones' = IF callResult = "returned" /\ lastOut # NullTex
                      /\ ~options.recycleTexture
                 THEN clones \cup {lastOut}
                 ELSE clones
    /\ selfRead' = (\E i \in 1 .. Len(args) :
                        CurrentTexture # NullTex /\ args[i] = CurrentTexture)
    /\ chained' = /\ Len(args) = 1
                  /\ lastOut # NullTex
                  /\ args[1] = lastOut
                  /\ callResult \in {"returned", "lost"}
    /\ IF lost
       THEN \* skip things: return stdprog.texture
            /\ callResult' = "lost"
            /\ lastOut' = CurrentTexture
            /\ drew' = FALSE
            /\ UNCHANGED <<texture, texIndex, nextTexture, dirtySize, texSize,
                           lastGood, pixels>>
       ELSE IF Len(args) # Len(params)
       THEN \* incorrect number of arguments
            /\ Fatal
            /\ UNCHANGED <<dirtySize, texSize>>
       ELSE \* update texSize uniform
            /\ texSize' = UpdateTexSize
            /\ dirtySize' = FALSE
            /\ IF \E i \in 1 .. Len(args) : SetUniformFatal(args[i])
               THEN Fatal
               ELSE \* bind fbo, gl.drawArrays, output texture
                    /\ drew' = TRUE
                    /\ callResult' = "returned"
                    /\ UNCHANGED texture
                    /\ IF ~options.renderToTexture
                       THEN /\ lastOut' = NullTex
                            /\ UNCHANGED <<texIndex, nextTexture, lastGood, pixels>>
                       ELSE /\ lastGood' = CurrentTexture
                            /\ pixels' = [pixels EXCEPT ![texIndex + 1] =
                                            DrawArrays(@, width, height)]
                            /\ IF options.recycleTexture
                               THEN /\ lastOut' = CurrentTexture
                                    /\ UNCHANGED nextTexture
                               ELSE \* cloneTexture = GLUtils.createTexture(...)
                                    /\ nextTexture <= MaxTextures
                                    /\ lastOut' = CloneTexture
                                    /\ nextTexture' = nextTexture + 1
                            /\ texIndex' = IF options.pingpong
                                           THEN Pingpong(texIndex)
                                           ELSE texIndex

\* program.resize(w, h)
Resize(w, h) ==
    LET w1 == IF w < 1 THEN 1 ELSE w
        h1 == IF h < 1 THEN 1 ELSE h
        n == Len(texture)
    IN
    /\ UNCHANGED <<outerVars, glVars, queueVars, reqCount, prod, cons, slotOf,
                   copyStamp, fence, delivered, lastCopy, burstStart, burstOf,
                   destBuffer>>
    /\ UNCHANGED <<options, texIndex, texSize, callResult, lastArgs, lastOut,
                   drew, selfRead, chained, clones>>
    /\ resizeResult' = IF lost THEN "lost"
                       ELSE IF w1 = width /\ h1 = height THEN "same"
                       ELSE "resized"
    /\ IF lost \/ (w1 = width /\ h1 = height)
       THEN \* lost context, or no need to resize
            UNCHANGED <<texture, nextTexture, width, height, dirtySize,
                        lastGood, pixelBuffer, pixelBufferSize, pixels>>
       ELSE \* this._stdprog.resize(width, height)
            /\ nextTexture + n - 1 <= MaxTextures
            /\ width' = w1
            /\ height' = h1
            /\ dirtySize' = TRUE
            \* new textures with the old content, old ones destroyed
            /\ texture' = [i \in 1 .. n |-> nextTexture + i - 1]
            /\ nextTexture' = nextTexture + n
            /\ pixels' = [i \in 1 .. n |->
                            CopyTexSubImage2D(CreateTexture(w1, h1), pixels[i],
                                              Min(w1, width), Min(h1, height))]
            /\ lastGood' = IF \E i \in 1 .. n : texture[i] = lastGood
                           THEN nextTexture + (CHOOSE i \in 1 .. n : texture[i] = lastGood) - 1
                           ELSE lastGood
            \* this._reallocatePixelBuffers(width, height)
            /\ pixelBuffer' = AllocatePixelBuffers(pixelBuffer)
            /\ pixelBufferSize' = ReallocatedSize(pixelBufferSize, w1, h1)

NextProgram ==
    \/ \E v \in TexValues : Call(<<v>>)
    \/ Call(<< >>)
    \/ \E w, h \in 0 .. MaxSize : Resize(w, h)
    \/ LoseContext

SpecProgram == InitProgram /\ [][NextProgram]_vars

(***************************************************************************)
(* new SpeedyProgram(gl, shaderdecl, options): _init()                     *)
(***************************************************************************)
\* names a kernel source may declare and a kernel may take as arguments
Names == {"image", "kernel"}

\* the uniforms _autodetectUniforms() may find: scalars <<name, -1>> and the
\* elements <<name, 0>>, <<name, 1>> of an array of length 2, besides texSize
DetectedUniforms ==
    { {<<"texSize", -1>>} \cup s \cup a :
        s \in SUBSET { <<n, -1>> : n \in Names },
        a \in { {} } \cup { { <<n, 0>>, <<n, 1>> } : n \in Names } }

\* the argument lists withArguments() may set
ArgumentLists ==
    { << >> } \cup { <<n>> : n \in Names } \cup { <<n, m>> : n \in Names, m \in Names }

Declarations ==
    [uniforms : DetectedUniforms, arguments : ArgumentLists, compiles : BOOLEAN]

\* the option records a caller may pass
AllOptions ==
    [renderToTexture : BOOLEAN, recycleTexture : BOOLEAN, pingpong : BOOLEAN]

\* stdprog.uniform.hasOwnProperty(name) || hasOwnProperty(name + '[0]')
\* (mutant: the arguments are not validated)
HasUniformAlways(decl, name) == TRUE

HasUniform(decl, name) ==
    <<name, -1>> \in decl.uniforms \/ <<name, 0>> \in decl.uniforms

\* some name of the argument list has no declared uniform
MissingUniform(decl) ==
    \E j \in 1 .. Len(decl.arguments) : ~HasUniform(decl, decl.arguments[j])

\* GLUtils.createProgram(): throws when the program did not link, unless the
\* context is lost
CreateProgramThrows(decl) == ~decl.compiles /\ ~lost

\* new SpeedyProgram(gl, shaderdecl, opts)
Construct(opts) ==
    /\ program = "none"
    /\ ctorOptions' = opts
    /\ program' = IF opts.pingpong /\ ~opts.renderToTexture THEN "SpeedyError"
                   ELSE IF CreateProgramThrows(shaderdecl) THEN "GLError"
                   ELSE IF MissingUniform(shaderdecl) THEN "SpeedyError"
                   ELSE "usable"
    /\ UNCHANGED <<shaderdecl, glVars, readVars, progVars, groupVars, composeVars,
                   codecVars, pyramidVars, medianVars, tunerVars, apiVars>>

\* a declaration of any kind, not yet given to the constructor
InitConstruct ==
    /\ InitGL
    /\ InitPixelBuffers
    /\ Constructed(DefaultOptions, MaxSize, MaxSize)
    /\ shaderdecl \in Declarations
    /\ ctorOptions = DefaultOptions
    /\ program = "none"
    /\ InitGroup
    /\ InitCompose
    /\ NoEncoders
    /\ NoPyramids
    /\ NoMedian
    /\ NoTuners
    /\ NoApi

NextConstruct ==
    \/ \E opts \in AllOptions : Construct(opts)
    \/ LoseContext

SpecConstruct == InitConstruct /\ [][NextConstruct]_vars

(***************************************************************************)
(* SpeedyProgramGroup.declare()                                            *)
(***************************************************************************)
\* this[key] || ...: the stored program, a function object, is truthy
\* (mutant: the stored program is never reused)
StoredNever(k) == FALSE

Stored(k) == k # 0

\* group.declare(name, shaderdecl, settings): defines the getter only
Declare(name) ==
    /\ name \notin declared
    /\ declared' = declared \cup {name}
    /\ UNCHANGED <<kernel, constructions, accesses, threw, got>>
    /\ UNCHANGED <<glVars, readVars, progVars, ctorVars, composeVars, codecVars, pyramidVars, medianVars, tunerVars, apiVars>>

\* group[name]: return this[key] || (this[key] = this._createProgram(...));
\* the constructor either returns a program or throws (ok)
Access(name, ok) ==
    /\ name \in declared
    /\ accesses[name] < MaxAccesses
    /\ accesses' = [accesses EXCEPT ![name] = @ + 1]
    /\ UNCHANGED declared
    /\ UNCHANGED <<glVars, readVars, progVars, ctorVars, composeVars, codecVars, pyramidVars, medianVars, tunerVars, apiVars>>
    /\ IF Stored(kernel[name])
       THEN /\ got' = [got EXCEPT ![name] = @ \cup {kernel[name]}]
            /\ UNCHANGED <<kernel, constructions, threw>>
       ELSE IF ok
       THEN /\ constructions' = [constructions EXCEPT ![name] = @ + 1]
            /\ kernel' = [kernel EXCEPT ![name] = constructions[name] + 1]
            /\ got' = [got EXCEPT ![name] = @ \cup {constructions[name] + 1}]
            /\ UNCHANGED threw
       ELSE /\ threw' = [threw EXCEPT ![name] = @ + 1]
            /\ UNCHANGED <<kernel, constructions, got>>

InitDeclare ==
    /\ InitGL
    /\ InitPixelBuffers
    /\ Constructed(DefaultOptions, MaxSize, MaxSize)
    /\ shaderdecl = ImageKernel
    /\ ctorOptions = options
    /\ program = "usable"
    /\ InitGroup
    /\ InitCompose
    /\ NoEncoders
    /\ NoPyramids
    /\ NoMedian
    /\ NoTuners
    /\ NoApi

NextDeclare ==
    \/ \E name \in ProgramNames : Declare(name)
    \/ \E name \in ProgramNames : \E ok \in BOOLEAN : Access(name, ok)

SpecDeclare == InitDeclare /\ [][NextDeclare]_vars

(***************************************************************************)
(* SpeedyProgramGroup.compose()                                            *)
(***************************************************************************)
\* what the program of a stage returns for an image and the extra arguments
Run(f, image, args) ==
    CASE f = "blur"   -> (image + 1 + args) % MaxColors
      [] f = "scale"  -> (2 * image + args) % MaxColors
      [] f = "invert" -> (MaxColors - 1 - image + 2 * args) % MaxColors

\* fi(img, ...args): the call of a stage on the value st.out of the evaluation
\* so far (mutant: the extra arguments are not passed on)
CallStageNoArgs(f, st, args) ==
    [out |-> Run(f, st.out, 0), calls |-> Append(st.calls, <<f, st.out, 0>>)]

CallStage(f, st, args) ==
    [out |-> Run(f, st.out, args), calls |-> Append(st.calls, <<f, st.out, args>>)]

\* fn.reduce((img, fi) => fi(img, ...args), image), from element i on
RECURSIVE Reduce(_, _, _, _)
Reduce(fn, i, st, args) ==
    IF i > Len(fn) THEN st
    ELSE Reduce(fn, i + 1, CallStage(fn[i], st, args), args)

\* function compose(image, ...args) as the getter builds it for fn
Compose(fn, image, args) ==
    LET st == [out |-> image, calls |-> << >>] IN
    IF Len(fn) = 2
    THEN CallStage(fn[2], CallStage(fn[1], st, args), args)
    ELSE IF Len(fn) = 3
    THEN CallStage(fn[3], CallStage(fn[2], CallStage(fn[1], st, args), args), args)
    ELSE IF Len(fn) = 4
    THEN CallStage(fn[4], CallStage(fn[3], CallStage(fn[2],
                CallStage(fn[1], st, args), args), args), args)
    ELSE Reduce(fn, 1, st, args)

\* group.compose(name, ...fn): the property of that name is defined once
DeclareCompose(fn) ==
    /\ composeFn = << >>
    /\ composeFn' = fn
    /\ composeCall' = << >>
    /\ composeResult' = [out |-> 0, calls |-> << >>]
    /\ UNCHANGED <<glVars, readVars, progVars, ctorVars, groupVars, codecVars, pyramidVars, medianVars, tunerVars, apiVars>>

\* group[name](image, ...args)
CallCompose(image, args) ==
    /\ composeFn # << >>
    /\ composeCall' = <<image, args>>
    /\ composeResult' = Compose(composeFn, image, args)
    /\ UNCHANGED composeFn
    /\ UNCHANGED <<glVars, readVars, progVars, ctorVars, groupVars, codecVars, pyramidVars, medianVars, tunerVars, apiVars>>

StageLists ==
    UNION { [1 .. n -> StageNames] : n \in 2 .. MaxStages }

NextCompose ==
    \/ \E fn \in StageLists : DeclareCompose(fn)
    \/ \E image \in Images : \E args \in ArgValues : CallCompose(image, args)

SpecCompose == InitDeclare /\ [][NextCompose]_vars

\* an image of any size given to encoders of any length; the download
\* program has no host buffer yet
InitCodec ==
    /\ InitGL
    /\ ~isFirefox
    /\ InitPixelBuffers
    /\ Constructed(DefaultOptions, MaxSize, MaxSize)
    /\ shaderdecl = ImageKernel
    /\ ctorOptions = options
    /\ program = "usable"
    /\ InitGroup
    /\ InitCompose
    /\ imageSize \in ImageSizes
    /\ corners \in ImagesOf(imageSize)
    /\ keypointEncoderLength \in EncoderLengths
    /\ descriptorSize \in DescriptorSizes
    /\ maxIterations \in 1 .. MaxIterations
    /\ offsets = << >>
    /\ encodedKeypoints = << >>
    /\ hostPixels = NullPixels
    /\ bufferWritten = FALSE
    /\ keypoints = << >>
    /\ codecStage = "idle"
    /\ capacityRequest = << >>
    /\ encoderSize = EncodersOfLength(keypointEncoderLength)
    /\ NoPyramids
    /\ NoMedian
    /\ NoTuners
    /\ NoApi

\* a capacity request of the codec bounds: it sets a length of the model, and
\* is the request of the least count that sets this length
SmallRequest(keypointCount, size) ==
    /\ NewEncoderLength(keypointCount, size) <= MaxLength
    /\ \A n \in 0 .. keypointCount - 1 :
          NewEncoderLength(n, size) # NewEncoderLength(keypointCount, size)
    /\ OptimizeKeypointEncoder(keypointCount, size)

NextCodec ==
    \/ EncodeKeypoints
    \/ \E useAsyncTransfer \in BOOLEAN : DownloadEncodedKeypoints(useAsyncTransfer)
    \/ DownloadFresh
    \/ DecodeKeypoints
    \/ \E keypointCount \in 0 .. MaxLength :
          \E size \in DescriptorSizes : SmallRequest(keypointCount, size)

SpecCodec == InitCodec /\ [][NextCodec]_vars

\* encoders as constructed, before any capacity request
InitCapacity ==
    /\ InitGL
    /\ ~isFirefox
    /\ InitPixelBuffers
    /\ Constructed(DefaultOptions, MaxSize, MaxSize)
    /\ InitConstructed

NextCapacity ==
    \E keypointCount \in KeypointCounts : \E size \in DescriptorBytes :
        OptimizeKeypointEncoder(keypointCount, size)

SpecCapacity == InitCapacity /\ [][NextCapacity]_vars

\* the 'webglcontextrestored' listener: _setupWebGL() creates a context and
\* constructs every program group anew, the encoders among them
SetupWebGL ==
    /\ lost
    /\ lost' = FALSE
    /\ glError' = FALSE
    /\ keypointEncoderLength' = INITIAL_ENCODER_LENGTH
    /\ encoderSize' = EncodersOfLength(INITIAL_ENCODER_LENGTH)
    /\ hostPixels' = NullPixels
    /\ bufferWritten' = FALSE
    /\ maxIterations' = 1
    /\ codecStage' = "idle"
    /\ pyramid' = PyramidOf(gpuSize)
    /\ intraPyramid' = IntraPyramidOf(gpuSize)
    /\ UNCHANGED <<corners, imageSize, descriptorSize, offsets, encodedKeypoints,
                   keypoints, capacityRequest>>
    /\ UNCHANGED <<gpuSize, pyramidAccess>>
    /\ UNCHANGED <<isFirefox, readVars, progVars, ctorVars, groupVars, composeVars,
                   medianVars, tunerVars, apiVars>>

\* the counts and the descriptor sizes of the requests made to the encoders
\* in and out of the periods of context loss
EncoderCounts == (0 .. MaxExpected) \cup {2 * MAX_KEYPOINTS}
EncoderDescriptors == DescriptorSizes \cup {MAX_DESCRIPTOR_SIZE}

\* capacity requests, context losses and context restorations, in any order
NextEncoders ==
    \/ \E keypointCount \in EncoderCounts : \E size \in EncoderDescriptors :
          OptimizeKeypointEncoder(keypointCount, size)
    \/ LoseContext
    \/ SetupWebGL

SpecEncoders == InitCapacity /\ [][NextEncoders]_vars

\* a SpeedyGPU of any size, as constructed: the constructor calls
\* _setupWebGL()
InitPyramid ==
    /\ InitGL
    /\ ~isFirefox
    /\ InitPixelBuffers
    /\ Constructed(DefaultOptions, MaxSize, MaxSize)
    /\ shaderdecl = ImageKernel
    /\ ctorOptions = options
    /\ program = "usable"
    /\ InitGroup
    /\ InitCompose
    /\ NoEncoders
    /\ gpuSize \in (1 .. MaxBase) \X (1 .. MaxBase)
    /\ pyramid = PyramidOf(gpuSize)
    /\ intraPyramid = IntraPyramidOf(gpuSize)
    /\ pyramidAccess = << >>
    /\ NoMedian
    /\ NoTuners
    /\ NoApi

\* the levels are accessed, and the pyramids are built anew when a lost
\* context is restored
NextPyramid ==
    \/ \E level \in -1 .. PYRAMID_MAX_LEVELS + 1 : AccessPyramid(level)
    \/ \E level \in -1 .. PYRAMID_MAX_LEVELS + 1 : AccessIntraPyramid(level)
    \/ LoseContext
    \/ SetupWebGL

SpecPyramid == InitPyramid /\ [][NextPyramid]_vars

\* the window sizes of a bucket: windowSize + (1 - windowSize % 2) is odd
WindowSizes == {w \in 1 .. MaxWindow : w % 2 = 1}

\* a window of any values, in any order
InitMedian ==
    /\ InitGL
    /\ ~isFirefox
    /\ InitPixelBuffers
    /\ Constructed(DefaultOptions, MaxSize, MaxSize)
    /\ shaderdecl = ImageKernel
    /\ ctorOptions = options
    /\ program = "usable"
    /\ InitGroup
    /\ InitCompose
    /\ NoEncoders
    /\ NoPyramids
    /\ \E w \in WindowSizes : win \in [1 .. w -> 0 .. MaxValue]
    /\ median = Undefined
    /\ NoTuners
    /\ NoApi

SpecMedian == InitMedian /\ [][Median]_vars

\* no tuner yet
InitTuner ==
    /\ InitGL
    /\ ~isFirefox
    /\ InitPixelBuffers
    /\ Constructed(DefaultOptions, MaxSize, MaxSize)
    /\ shaderdecl = ImageKernel
    /\ ctorOptions = options
    /\ program = "usable"
    /\ InitGroup
    /\ InitCompose
    /\ NoEncoders
    /\ NoPyramids
    /\ NoMedian
    /\ NoTuners
    /\ NoApi

\* a tuner of any class is constructed, fed and reset
NextTuner ==
    \/ NewTestTuner
    \/ \E alpha \in Alphas, maxIterationsPerTemperature \in 1 .. MaxPerTemperature,
          initialTemperature \in Temperatures :
          NewStochasticTuner(MaxState, alpha, maxIterationsPerTemperature,
                             initialTemperature)
    \/ \E initialState \in States : NewSensitivityTuner(initialState)
    \/ NewGoldenSectionTuner
    \/ FeedCost
    \/ \E expected \in ExpectedValues : FeedResponse(expected)
    \/ ResetTuner

SpecTuner == InitTuner /\ [][NextTuner]_vars

\* an annealing tuner is constructed and fed the cost of each state it
\* presents, for as long as the caller goes on
NextAnnealing ==
    \/ \E alpha \in Alphas, maxIterationsPerTemperature \in 1 .. MaxPerTemperature,
          initialTemperature \in Temperatures :
          NewStochasticTuner(MaxState, alpha, maxIterationsPerTemperature,
                             initialTemperature)
    \/ FeedCost

SpecAnnealing == InitTuner /\ [][NextAnnealing]_vars

\* a tuner of any class is constructed with any initial state, fed any
\* observations and reset
NextObservations ==
    \/ NewTestTuner
    \/ \E initialState \in InitialStates :
          NewStochasticTuner(initialState, <<1, 2>>, 1, 2)
    \/ \E initialState \in InitialStates : NewSensitivityTuner(initialState)
    \/ NewGoldenSectionTuner
    \/ FeedAny
    \/ FeedAnySensitivity
    \/ ResetTuner

SpecObservations == InitTuner /\ [][NextObservations]_vars

NextReadback ==
    \/ ReadPixelsAsync
    \/ \E r \in Requests : WaitProducer(r)
    \/ \E r \in Requests : GpuCompletes(r)
    \/ \E r \in Requests : ClientWaitAsync(r)
    \/ \E r \in Requests : WaitConsumer(r)
    \/ ReadPixelsSync
    \/ LoseContext

SpecReadback == Init /\ [][NextReadback]_vars

\* timers always fire again (setTimeout, setZeroTimeout) and the GPU finishes
\* every copy it was given while the context lives
FairnessReadback ==
    /\ \A r \in Requests : WF_vars(WaitProducer(r))
    /\ \A r \in Requests : WF_vars(WaitConsumer(r))
    /\ \A r \in Requests : WF_vars(ClientWaitAsync(r))
    /\ \A r \in Requests : WF_vars(GpuCompletes(r))

FairSpecReadback == Init /\ [][NextReadback]_vars /\ FairnessReadback

\* the continuation of the promise of request r runs: the caller decodes the
\* buffer it was resolved with (await readPixelsAsync() in
\* downloadEncodedKeypoints(), then decodeKeypoints())
Decode(r) ==
    /\ cons[r] = "resolved"
    /\ cons' = [cons EXCEPT ![r] = "decoded"]
    /\ UNCHANGED <<outerVars, progVars, glVars, queueVars, pixelBuffer, reqCount,
                   prod, slotOf, copyStamp, fence, delivered, lastCopy, burstStart,
                   burstOf, pixelBufferSize, destBuffer>>

\* no continuation of a resolved read promise is waiting to run: the
\* microtasks of the current task are done and the event loop may take the
\* next task
Idle == \A r \in Requests : cons[r] # "resolved"

\* the timer of a request waiting for a producer slot is a task
ProducerTimer(r) == Idle /\ WaitProducer(r)

\* the timer of a request waiting for a consumer slot is a task
ConsumerTimer(r) == Idle /\ WaitConsumer(r)

\* a sync object becomes signalled only when the event loop is not executing
\* a task
FenceSignals(r) == Idle /\ GpuCompletes(r)

\* checkStatus() runs in the call that issues the copy and then as a task:
\* the model lets it run at any time
CheckStatus(r) == ClientWaitAsync(r)

\* requests and their continuations in any order; timers and fences between
\* tasks
NextDelivery ==
    \/ ReadPixelsAsync
    \/ \E r \in Requests : Decode(r)
    \/ \E r \in Requests : ProducerTimer(r)
    \/ \E r \in Requests : FenceSignals(r)
    \/ \E r \in Requests : CheckStatus(r)
    \/ \E r \in Requests : ConsumerTimer(r)
    \/ ReadPixelsSync
    \/ LoseContext

SpecDelivery == Init /\ [][NextDelivery]_vars

\* a square program of the least size, as the encoders are
InitResized ==
    /\ InitGL
    /\ InitPixelBuffers
    /\ Constructed(DefaultOptions, 1, 1)
    /\ InitConstructed

\* the program is resized between requests, continuations and tasks, as
\* optimizeKeypointEncoder() resizes the encoders
NextResized ==
    \/ NextDelivery
    \/ \E length \in 1 .. MaxSize : Resize(length, length)

SpecResized == InitResized /\ [][NextResized]_vars

(***************************************************************************)
(* Properties of the readback pipeline                                     *)
(***************************************************************************)
\* the copies that hold slot s outside both queues: issued and not yet
\* observed complete, or rejected by clientWaitAsync()
InFlight(s) == { r \in Requests : prod[r] \in {"copying", "failed"} /\ slotOf[r] = s }

\* request r was given a slot of the consumer queue (not the lost-context path)
PickedUp(r) == cons[r] = "resolved" /\ prod[r] # "skipped"

\* C1 (as stated): every slot is in exactly one of the two queues, exactly
\* once: never in both, never twice in one, never in neither.
C1_ExactlyOneQueue ==
    \A s \in Slots :
        Count(pboProducerQueue, s) + Count(pboConsumerQueue, s) = 1

\* C1 (amended): no slot is in both queues or twice in one queue, and a slot
\* is in neither queue exactly while one copy issued into it is pending or
\* has been rejected: queues and pending copies together hold each slot once.
C1_SlotOwnership ==
    \A s \in Slots :
        Count(pboProducerQueue, s) + Count(pboConsumerQueue, s)
            + Cardinality(InFlight(s)) = 1

\* C1 witness: requests, timers and a completion have interleaved; one slot is
\* being copied into and is in neither queue, an earlier copy was picked up.
C1_Witness ==
    /\ \E r \in Requests : prod[r] = "copying" /\ fence[r]
    /\ \E r \in Requests : prod[r] = "done" /\ PickedUp(r)
    /\ pboProducerQueue = << >>
    /\ pboConsumerQueue = << >>

\* C2: a read that is pending when the context is lost is eventually resolved.
C2_PendingReadResolves ==
    \A r \in Requests :
        [](lost /\ cons[r] = "waiting" => <>(cons[r] = "resolved"))

\* C3: while the context is not lost and every copy completes, every read
\* that waits for a consumer slot is eventually resolved.
C3_ReadsResolve ==
    \A r \in Requests :
        (cons[r] = "waiting") ~> (cons[r] = "resolved" \/ lost)

\* C3 witness: the last request was resolved with bytes newer than its own
\* call, so it waited for a slot to become ready, and got one.
C3_Witness ==
    /\ ~lost
    /\ reqCount = MaxRequests
    /\ PickedUp(MaxRequests)
    /\ delivered[MaxRequests] >= MaxRequests

C5_DepthBound ==
    \A r \in Requests :
        (burstOf[r] >= 1 /\ r = burstOf[r] + PBO_COUNT /\ cons[r] = "resolved")
            => \E q \in burstOf[r] .. (r - 1) : cons[q] = "resolved"

\* C6: a read after the first PBO_COUNT delivers bytes read from the
\* framebuffer no earlier than the request made PBO_COUNT requests before it.
C6_LatencyBound ==
    \A r \in Requests :
        (r > PBO_COUNT /\ PickedUp(r)) => delivered[r] >= r - PBO_COUNT

\* C7: no request obtains a producer slot, or a consumer slot, while an
\* earlier request is still waiting for one.
C7_InvocationOrder ==
    \A q, r \in Requests :
        q < r =>
            /\ ~(prod[q] = "waiting" /\ prod[r] \in {"copying", "done", "failed"})
            /\ ~(cons[q] = "waiting" /\ PickedUp(r))

\* C35: a waiting request that was woken removed a slot from a non-empty
\* queue: every copy was issued into a slot of the program, and only slots
\* of the program are in the queues, never undefined.
C35_NoUndefinedSlot ==
    /\ \A r \in Requests :
          prod[r] \in {"copying", "done", "failed"} => slotOf[r] \in Slots
    /\ Range(pboProducerQueue) \subseteq Slots
    /\ Range(pboConsumerQueue) \subseteq Slots

\* C35 witness: the first request waited for a producer slot, was woken and
\* its copy completed; a later request waited for a consumer slot and was
\* woken to pick up bytes copied after its call.
C35_Witness ==
    /\ prod[1] = "done"
    /\ slotOf[1] \in Slots
    /\ \E r \in Requests : r > 1 /\ PickedUp(r) /\ delivered[r] >= r

\* a copy completes in this step: getBufferSubData() writes a host buffer
CopyCompletes == \E q \in Requests : prod[q] = "copying" /\ prod'[q] = "done"

\* C36: while a buffer delivered by a pickup waits for the continuation that
\* decodes it, no copy completes, so no GPU copy writes the buffer, although
\* its slot is back in the producer queue and may be given to a new copy.
C36_NoCopyBeforeDecode ==
    [][(\E r \in Requests : PickedUp(r)) => ~CopyCompletes]_vars

\* C36 witness: the buffer of the slot was delivered to the first request and
\* is not decoded yet; the slot went back to the producer queue and the
\* second request, made in the same run, issued its copy into it.
C36_Witness ==
    /\ PickedUp(1)
    /\ prod[2] = "copying"
    /\ slotOf[2] = 0
    /\ copyStamp[2] = 2

\* C37: when a copy has completed, whatever resize() did meanwhile, the
\* buffer its slot delivers holds the bytes of that copy (or newer ones).
C37_DeliversCopiedBytes ==
    \A s \in Range(pboConsumerQueue) :
        (lastCopy[s] # 0 /\ prod[lastCopy[s]] = "done")
            => pixelBuffer[s] >= copyStamp[lastCopy[s]]

(***************************************************************************)
(* Properties of _call()                                                   *)
(***************************************************************************)
\* C8 (as stated): a call that is given the program's own current output
\* texture raises an error and issues no draw.
C8_SelfReadRaises ==
    (callResult # "none" /\ selfRead) => (callResult = "fatal" /\ ~drew)

\* C8 (amended): while the context is not lost, a call that is given the
\* program's own current output texture raises an error and issues no draw;
\* on a lost context the call returns without an error and without a draw.
C8_SelfReadRaisesUnlessLost ==
    (callResult # "none" /\ selfRead) =>
        /\ ~drew
        /\ callResult \in {"fatal", "lost"}
        /\ callResult = "lost" => lost

\* C8 witness: a live ping-pong program that has rendered before was called
\* with its current output texture, and the call ended in Utils.fatal().
C8_Witness ==
    /\ selfRead
    /\ ~lost
    /\ callResult = "fatal"
    /\ options.pingpong
    /\ lastGood # NullTex

\* C9 (as stated): in a chain of calls of a ping-pong program, each consuming
\* the output of the call before it, no call raises an error and every call
\* returns a texture other than the one the call before it returned.
C9_PingpongChain ==
    (options.pingpong /\ chained) =>
        (callResult # "fatal" /\ lastOut # lastArgs[1])

\* C9 (amended): the same, for the calls made while the context is not lost.
C9_PingpongChainUnlessLost ==
    /\ callResult = "lost" => lost
    /\ (options.pingpong /\ chained /\ callResult # "lost") =>
            (callResult = "returned" /\ drew /\ lastOut # lastArgs[1])

\* C9 witness: a chained call of a live ping-pong program that rendered into
\* its second texture and returned it.
C9_Witness ==
    /\ options.pingpong
    /\ options.recycleTexture
    /\ chained
    /\ ~lost
    /\ callResult = "returned"
    /\ texIndex = 0
    /\ lastOut = texture[2]

\* C10: on a lost context an invocation draws nothing, throws nothing and
\* returns the texture that holds the output of the last successful invocation.
C10_LostCallReturnsLastGood ==
    (callResult = "lost" /\ lastGood # NullTex) =>
        (~drew /\ lastOut = lastGood)

\* C12: at every draw the texSize uniform equals the program's current output
\* size: the uniform is stale only while the dirty-size flag is set, and a
\* call that draws has refreshed the uniform and cleared the flag.
C12_TexSizeCurrentAtDraw ==
    /\ ~dirtySize => texSize = <<width, height>>
    /\ (drew /\ resizeResult = "none") =>
            (~dirtySize /\ texSize = <<width, height>>)

\* C12 witness: the program was resized (its textures were reallocated) and
\* the last operation was a call that drew with the refreshed uniform.
C12_Witness ==
    /\ drew
    /\ resizeResult = "none"
    /\ Len(texture) = 2
    /\ texture[1] > ExternalTex + 2
    /\ texSize = <<MaxSize, 1>>

\* the program was declared with the clone policy (doesNotRecycleTextures)
ClonePolicy == options.renderToTexture /\ ~options.recycleTexture

\* C13 (as stated): every invocation of a program with the clone policy
\* returns a texture that is none of the program's backing textures and none
\* of the textures returned by earlier invocations.
C13_CloneIsFresh ==
    (ClonePolicy /\ callResult \in {"returned", "lost"}) =>
        (lastOut \notin Range(texture) /\ lastOut \notin clones)

\* C13 (amended): the same for the invocations made while the context is not
\* lost; an invocation on a lost context returns the backing texture itself.
C13_CloneIsFreshUnlessLost ==
    /\ (ClonePolicy /\ callResult = "returned") =>
            (lastOut \notin Range(texture) /\ lastOut \notin clones)
    /\ callResult = "lost" => (lost /\ lastOut = CurrentTexture)

\* C13 witness: a ping-pong program with the clone policy has returned its
\* third clone.
C13_Witness ==
    /\ ClonePolicy
    /\ options.pingpong
    /\ ~lost
    /\ callResult = "returned"
    /\ Cardinality(clones) = 2
    /\ lastOut \notin clones

(***************************************************************************)
(* Properties of the constructor                                           *)
(***************************************************************************)
\* the constructor threw: no program was produced
ConstructionFailed == program \in {"GLError", "SpeedyError"}

\* a name in the argument list is declared neither as a uniform nor as the
\* first element of a uniform array
ArgumentUndeclared ==
    \E j \in 1 .. Len(shaderdecl.arguments) :
        LET name == shaderdecl.arguments[j] IN
        /\ <<name, -1>> \notin shaderdecl.uniforms
        /\ <<name, 0>> \notin shaderdecl.uniforms

\* C14 (as stated): construction fails whenever a name of the argument list
\* has no declared uniform or the source fails to compile or link.
C14_BadKernelFails ==
    (program # "none" /\ (ArgumentUndeclared \/ ~shaderdecl.compiles))
        => ConstructionFailed

\* C14 (amended): construction fails whenever a name of the argument list has
\* no declared uniform, and, on a context that is not lost, whenever the
\* source fails to compile or link; a program constructed from such a source
\* was constructed on a lost context.
C14_BadKernelFailsUnlessLost ==
    program # "none" =>
        /\ ArgumentUndeclared => ConstructionFailed
        /\ (~shaderdecl.compiles /\ ~lost) => ConstructionFailed
        /\ (~shaderdecl.compiles /\ program = "usable") => lost

\* C14 witness: a kernel whose source links, with valid options, was refused
\* because its second argument is declared neither as a uniform nor as an
\* array, while its first argument is an array.
C14_Witness ==
    /\ program = "SpeedyError"
    /\ ~lost
    /\ shaderdecl.compiles
    /\ ctorOptions \in ValidOptions
    /\ Len(shaderdecl.arguments) = 2
    /\ <<shaderdecl.arguments[1], 0>> \in shaderdecl.uniforms
    /\ ArgumentUndeclared

(***************************************************************************)
(* Properties of SpeedyProgramGroup                                        *)
(***************************************************************************)
\* C15: a declared program is not constructed before its getter is called;
\* accesses that do not throw construct it on the first of them, and every
\* access returns that one instance: at most one construction per name.
C15_LazyMemoized ==
    \A name \in ProgramNames :
        /\ constructions[name] <= 1
        /\ accesses[name] = 0 => constructions[name] = 0
        /\ accesses[name] > threw[name] => constructions[name] = 1
        /\ Cardinality(got[name]) <= 1
        /\ got[name] \subseteq {kernel[name]} \ {0}

\* C15 witness: one name was accessed MaxAccesses times without a throw and
\* is constructed, the other is declared and not constructed.
C15_Witness ==
    /\ declared = ProgramNames
    /\ accesses["f"] = MaxAccesses
    /\ threw["f"] = 0
    /\ got["f"] = {1}
    /\ accesses["g"] = 0
    /\ constructions["g"] = 0

\* fn[n](... fn[2](fn[1](image, args), args) ..., args)
RECURSIVE Nested(_, _, _, _)
Nested(fn, n, image, args) ==
    IF n = 0 THEN image ELSE Run(fn[n], Nested(fn, n - 1, image, args), args)

\* C16: a composed program of n >= 2 stages returns
\* fn(...f2(f1(image, args), args)..., args): the stages are called once each
\* in declaration order, each on the output of the stage before it and with
\* the unmodified extra arguments, and the special-cased arities give what
\* the general reduction gives.
C16_ComposeIsNested ==
    composeCall # << >> =>
        LET image == composeCall[1]
            args == composeCall[2]
            n == Len(composeFn)
        IN
        /\ composeResult.out = Nested(composeFn, n, image, args)
        /\ Len(composeResult.calls) = n
        /\ \A i \in 1 .. n :
              composeResult.calls[i] =
                  <<composeFn[i], Nested(composeFn, i - 1, image, args), args>>
        /\ composeResult =
              Reduce(composeFn, 1, [out |-> image, calls |-> << >>], args)

\* C16 witness: a composition of MaxStages stages (the general reduction) was
\* called with a non-zero extra argument, and its stages do not commute.
C16_Witness ==
    /\ composeCall # << >>
    /\ composeCall[2] = 1
    /\ Len(composeFn) = MaxStages
    /\ composeFn[1] # composeFn[2]
    /\ composeResult.out #
            Nested(<<composeFn[2], composeFn[1]>> \o SubSeq(composeFn, 3, MaxStages),
                   MaxStages, composeCall[1], 1)

(***************************************************************************)
(* Properties of the keypoint codec                                        *)
(***************************************************************************)
\* decodeKeypoints() has returned; the decoder leaves the bytes it was given
\* in hostPixels
Decoded == codecStage \in {"decoded", "decodedFresh"}

\* the records of the buffer given to the decoder: one begins at every
\* multiple of the record length below the end of the buffer
RecordCount ==
    (hostPixels.length + Stride(descriptorSize) - 1) \div Stride(descriptorSize)

\* byte i >= 1 of the buffer given to the decoder
HostByte(i) == IF i <= Len(hostPixels.head) THEN hostPixels.head[i] ELSE 0

\* the position written in record n, n >= 0: two little-endian 16-bit numbers
RecordPosition(n) ==
    LET i == n * Stride(descriptorSize)
    IN  <<HostByte(i + 1) + 256 * HostByte(i + 2),
          HostByte(i + 3) + 256 * HostByte(i + 4)>>

\* the position of record n lies outside the image
OutOfBounds(n) ==
    RecordPosition(n)[1] >= imageSize[1] \/ RecordPosition(n)[2] >= imageSize[2]

\* the first record whose position lies outside the image, the number of
\* records if there is none
FirstSentinel ==
    IF \E n \in 0 .. RecordCount - 1 : OutOfBounds(n)
    THEN CHOOSE n \in 0 .. RecordCount - 1 :
            OutOfBounds(n) /\ \A m \in 0 .. n - 1 : ~OutOfBounds(m)
    ELSE RecordCount

\* C17: decoding returns exactly the records that precede the first record
\* whose position is outside the image (x >= width or y >= height), in order;
\* no record at or after that one is returned.
C17_DecodeStopsAtSentinel ==
    Decoded =>
        /\ Len(keypoints) = FirstSentinel
        /\ \A n \in 1 .. Len(keypoints) :
              <<keypoints[n].x, keypoints[n].y>> = RecordPosition(n - 1)

\* C17 witness: the decoder returned some records and stopped at a sentinel
\* that more records follow.
C17_Witness ==
    /\ codecStage = "decoded"
    /\ Len(keypoints) > 0
    /\ Len(keypoints) + 1 < RecordCount

\* the surviving pixels of the image, by raster index
Surviving == { j \in DOMAIN corners : corners[j] > 0 }

Capacity ==
    (keypointEncoderLength * keypointEncoderLength) \div (2 + descriptorSize \div 4)

\* the n-th surviving pixel in raster order, n >= 1
NthSurviving(n) ==
    CHOOSE j \in Surviving : Cardinality({ k \in Surviving : k < j }) = n - 1

\* the position <<x, y>> of the pixel of raster index j
PositionOf(j) == <<(j - 1) % imageSize[1], (j - 1) \div imageSize[1]>>

\* C19: with K surviving pixels, K at most the capacity of the encoder,
\* encoding then decoding returns K keypoints, at the surviving pixels in
\* raster order; no skip count written by the offset pass jumps over a
\* surviving pixel. (Not so when the K records fill the encoder texture and
\* the host buffer is longer than the texture: the decoder reads on.)
C19_RoundTrip ==
    /\ codecStage \in {"encoded", "downloaded", "decoded"} =>
          \A j \in DOMAIN offsets :
              \A k \in (j + 1) .. (j + offsets[j][2]) :
                  k \in DOMAIN corners /\ corners[k] = 0
    /\ (codecStage = "decoded" /\ Cardinality(Surviving) <= Capacity) =>
          /\ Len(keypoints) = Cardinality(Surviving)
          /\ \A n \in 1 .. Len(keypoints) :
                <<keypoints[n].x, keypoints[n].y>> = PositionOf(NthSurviving(n))

\* C38: every keypoint returned by decodeKeypoints comes from a record lying
\* entirely within the L-by-L pixels read back from the encoder texture, so
\* at most floor(L * L / recordLength) keypoints are returned. (Not so when
\* the host buffer is longer than the texture: the decoder reads on, to the
\* end of the buffer.)
C38_WithinTexture ==
    codecStage = "decoded" =>
        Len(keypoints) <= (keypointEncoderLength * keypointEncoderLength)
                              \div PixelsPerKeypoint(descriptorSize)

(***************************************************************************)
(* Properties of optimizeKeypointEncoder()                                 *)
(***************************************************************************)
\* the record length, in pixels, of a descriptor of the given size in bytes
RecordLength(size) == 2 + ((size + 3) \div 4)

\* l * l >= (n * 1.05 + 4) * r, r the record length
Suffices(l, n, size) == 100 * l * l >= (105 * n + 400) * RecordLength(size)

\* C20 (as stated): a capacity request for E keypoints sets the encoder length
\* to the least L <= MAX_ENCODER_LENGTH with L * L >= (E * 1.05 + 4) * r.
C20_MinimalLength ==
    capacityRequest # << >> =>
        /\ keypointEncoderLength \in 1 .. MAX_ENCODER_LENGTH
        /\ Suffices(keypointEncoderLength, capacityRequest[1], capacityRequest[2])
        /\ \A l \in 1 .. keypointEncoderLength - 1 :
              ~Suffices(l, capacityRequest[1], capacityRequest[2])

\* C20 (amended): a capacity request for E keypoints sets the encoder length
\* to the least L >= 1 with L * L >= (min(E, MAX_KEYPOINTS) * 1.05 + 4) * r,
\* or to MAX_ENCODER_LENGTH if that is less.
C20_MinimalLengthClamped ==
    capacityRequest # << >> =>
        LET n == Min(capacityRequest[1], MAX_KEYPOINTS)
        IN  /\ keypointEncoderLength \in 1 .. MAX_ENCODER_LENGTH
            /\ \/ Suffices(keypointEncoderLength, n, capacityRequest[2])
               \/ keypointEncoderLength = MAX_ENCODER_LENGTH
            /\ \A l \in 1 .. keypointEncoderLength - 1 :
                  ~Suffices(l, n, capacityRequest[2])

\* C20 witness: a request for more than MAX_KEYPOINTS keypoints left the
\* encoder shorter than MAX_ENCODER_LENGTH.
C20_Witness ==
    /\ capacityRequest # << >>
    /\ capacityRequest[1] > MAX_KEYPOINTS
    /\ keypointEncoderLength < MAX_ENCODER_LENGTH
    /\ keypointEncoderLength > INITIAL_ENCODER_LENGTH

\* the least encoder length whose square holds n records of the given
\* descriptor size, with the margin of 5% and the slack of 4 records
LeastLength(n, size) ==
    CHOOSE l \in 1 .. SqrtLimit :
        Suffices(l, n, size) /\ \A k \in 1 .. l - 1 : ~Suffices(k, n, size)

\* C21 (as stated): a capacity request for 0 keypoints sets the least valid
\* encoder length, and a request for 2 * MAX_KEYPOINTS keypoints sets
\* MAX_ENCODER_LENGTH, for every descriptor size from 0 to MAX_DESCRIPTOR_SIZE;
\* the request returns.
C21_ClampedRequests ==
    (capacityRequest # << >> /\ capacityRequest[2] \in 0 .. MAX_DESCRIPTOR_SIZE) =>
        /\ capacityRequest[1] = 0 =>
              keypointEncoderLength = LeastLength(0, capacityRequest[2])
        /\ capacityRequest[1] = 2 * MAX_KEYPOINTS =>
              keypointEncoderLength = MAX_ENCODER_LENGTH

\* C21 (amended): a request for 0 keypoints sets the least valid encoder
\* length; a request for 2 * MAX_KEYPOINTS keypoints sets the length a request
\* for MAX_KEYPOINTS sets, at most MAX_ENCODER_LENGTH, which is
\* MAX_ENCODER_LENGTH only for the descriptors whose record takes
\* MAX_PIXELS_PER_KEYPOINT pixels.
C21_ClampedRequestsBySize ==
    (capacityRequest # << >> /\ capacityRequest[2] \in 0 .. MAX_DESCRIPTOR_SIZE) =>
        /\ capacityRequest[1] = 0 =>
              keypointEncoderLength = LeastLength(0, capacityRequest[2])
        /\ capacityRequest[1] = 2 * MAX_KEYPOINTS =>
              /\ keypointEncoderLength =
                    Min(MAX_ENCODER_LENGTH, LeastLength(MAX_KEYPOINTS, capacityRequest[2]))
              /\ keypointEncoderLength = MAX_ENCODER_LENGTH
                    <=> RecordLength(capacityRequest[2]) = MAX_PIXELS_PER_KEYPOINT

\* C21 witness: a request for 2 * MAX_KEYPOINTS keypoints with the largest
\* descriptor set MAX_ENCODER_LENGTH.
C21_Witness ==
    /\ capacityRequest = <<2 * MAX_KEYPOINTS, MAX_DESCRIPTOR_SIZE>>
    /\ keypointEncoderLength = MAX_ENCODER_LENGTH

\* C22 (as stated): the recorded encoder length is in
\* 1 .. MAX_ENCODER_LENGTH and is the width and the height of the programs
\* _encodeKeypoints, _downloadKeypoints and _orientEncodedKeypoints, after
\* every sequence of capacity requests and periods of context loss.
C22_LengthIsProgramSize ==
    /\ keypointEncoderLength \in 1 .. MAX_ENCODER_LENGTH
    /\ encoderSize = EncodersOfLength(keypointEncoderLength)

\* C22 (amended): the recorded encoder length is in 1 .. MAX_ENCODER_LENGTH,
\* and while the context is not lost it is the width and the height of the
\* three programs.
C22_LengthIsProgramSizeUnlessLost ==
    /\ keypointEncoderLength \in 1 .. MAX_ENCODER_LENGTH
    /\ ~lost => encoderSize = EncodersOfLength(keypointEncoderLength)

\* C22 witness: with a context that is not lost, a capacity request has
\* changed the length of the encoders, and the three programs with it.
C22_Witness ==
    /\ ~lost
    /\ capacityRequest = <<2 * MAX_KEYPOINTS, MAX_DESCRIPTOR_SIZE>>
    /\ keypointEncoderLength = MAX_ENCODER_LENGTH
    /\ encoderSize = EncodersOfLength(MAX_ENCODER_LENGTH)

(***************************************************************************)
(* Properties of the pyramids                                              *)
(***************************************************************************)
RECURSIVE PowerOfTwo(_)
PowerOfTwo(i) == IF i = 0 THEN 1 ELSE 2 * PowerOfTwo(i - 1)

\* floor(n / 2^i) and ceil(n / 2^i)
FloorShift(n, i) == n \div PowerOfTwo(i)
CeilShift(n, i) == (n + PowerOfTwo(i) - 1) \div PowerOfTwo(i)

\* the base of the intra-pyramid: the size of the image scaled by 1.5,
\* without its fraction
Intra(n) == (3 * n) \div 2

\* C23 (as stated): level i of the pyramid of a base of size (w, h) is sized
\* floor(w / 2^i) by floor(h / 2^i), and level i of the intra-pyramid is sized
\* likewise from the base scaled by 1.5, for odd sizes too.
C23_LevelsRoundedDown ==
    /\ \A i \in 0 .. PYRAMID_MAX_LEVELS - 1 :
          pyramid[i + 1] = <<FloorShift(gpuSize[1], i), FloorShift(gpuSize[2], i)>>
    /\ \A i \in 0 .. PYRAMID_MAX_LEVELS :
          intraPyramid[i + 1] =
             <<FloorShift(Intra(gpuSize[1]), i), FloorShift(Intra(gpuSize[2]), i)>>

\* C23 (amended): level i of the pyramid of a base of size (w, h) is sized
\* ceil(w / 2^i) by ceil(h / 2^i), and level i of the intra-pyramid is sized
\* likewise from floor(1.5 w) by floor(1.5 h); the accessors return these
\* levels.
C23_LevelsRoundedUp ==
    /\ Len(pyramid) = PYRAMID_MAX_LEVELS
    /\ Len(intraPyramid) = PYRAMID_MAX_LEVELS + 1
    /\ \A i \in 0 .. PYRAMID_MAX_LEVELS - 1 :
          pyramid[i + 1] = <<CeilShift(gpuSize[1], i), CeilShift(gpuSize[2], i)>>
    /\ \A i \in 0 .. PYRAMID_MAX_LEVELS :
          intraPyramid[i + 1] =
             <<CeilShift(Intra(gpuSize[1]), i), CeilShift(Intra(gpuSize[2]), i)>>
    /\ (pyramidAccess # << >> /\ pyramidAccess[3] # InvalidLevel) =>
          LET i == pyramidAccess[2]
              base == IF pyramidAccess[1] = "pyramid" THEN gpuSize
                      ELSE <<Intra(gpuSize[1]), Intra(gpuSize[2])>>
          IN  pyramidAccess[3] = <<CeilShift(base[1], i), CeilShift(base[2], i)>>

\* C23 witness: the last level of the pyramid of an image of odd width and
\* height was accessed, and is larger than the size rounded down.
C23_Witness ==
    /\ gpuSize = <<5, 3>>
    /\ pyramidAccess = <<"pyramid", PYRAMID_MAX_LEVELS - 1, <<1, 1>>>>
    /\ FloorShift(gpuSize[1], PYRAMID_MAX_LEVELS - 1) = 0

(***************************************************************************)
(* Properties of Bucket                                                    *)
(***************************************************************************)
\* m is the middle element of v in sorted order: it is in v, and at most
\* half of the other elements are below it and at most half above
IsMedian(m, v) ==
    /\ \E i \in 1 .. Len(v) : v[i] = m
    /\ 2 * Cardinality({i \in 1 .. Len(v) : v[i] < m}) < Len(v)
    /\ 2 * Cardinality({i \in 1 .. Len(v) : v[i] > m}) < Len(v)

\* C30: the median routine returns the middle element in sorted order of a
\* window of 3, 5 or 7 values, in every order and with any repetition, and of
\* a window of any other size, which it sorts.
C30_MedianIsMiddle ==
    median # Undefined =>
        /\ IsMedian(median, win)
        /\ Len(win) \notin {1, 3, 5, 7} =>
              \A i \in 1 .. Len(win) - 1 : win[i] <= win[i + 1]

\* C30 witness: the median of a window of 7 values, given in decreasing order
\* and with a repetition, was computed.
C30_Witness ==
    /\ Len(win) = 7
    /\ median = 1
    /\ \E i \in 1 .. 6 : win[i] = win[i + 1]
    /\ \E i \in 1 .. 7 : win[i] = 2
    /\ \E i \in 1 .. 7 : win[i] = 0

(***************************************************************************)
(* Properties of the tuners                                                *)
(***************************************************************************)
\* a call of the tuner other than its construction has been made
TunerCalled(name) == tuner.kind # "none" /\ tuner'.kind = tuner.kind /\ tunerCall'[1] = name

\* the call is feedObservation() of a sensitivity tuner with an expected
\* value that is not the one of the call before
ExpectedChanges ==
    /\ TunerCalled("feedObservation")
    /\ tuner.kind = "SensitivityTuner"
    /\ <<tunerCall'[3]>> # tuner.expected

\* C24: for every tuner, apart from reset, currentValue() changes only inside
\* a feedObservation call that completes a dwell, that is, when exactly one
\* bucket's capacity of observations has been fed for the current state since
\* the last state change or reset; on that call the iteration counter returns
\* to 0 and the epoch increases by 1.
C24_ChangesAfterOneDwell ==
    [][(TunerCalled("feedObservation") /\ tuner'.state # tuner.state)
            => /\ tunerLog.fed + 1 = BucketSize
               /\ tuner'.iterations = 0
               /\ tuner'.epoch = tuner.epoch + 1]_vars

\* C24 (amended): currentValue() changes only in reset(), in the
\* feedObservation call of a sensitivity tuner whose expected value changes
\* (the tuner is reset, and the epoch is 0 after the call), and in a
\* feedObservation call that brings the iteration counter to one bucket's
\* capacity; the counter counts the observations taken since the last
\* completed dwell or the last reset of the base class (the reset of an
\* annealing tuner leaves it), and a dwell that completes may keep the state;
\* on the call that completes a dwell the iteration counter returns to 0 and
\* the epoch increases by 1.
C24_ChangesAtDwellCompletion ==
    [][(tuner.kind # "none" /\ tuner'.kind = tuner.kind /\ tuner'.state # tuner.state)
            => \/ TunerCalled("reset") /\ tuner'.state = tuner.initialState
               \/ /\ ExpectedChanges
                  /\ tuner'.state = tuner.initialState
                  /\ tuner'.epoch = 0
               \/ /\ TunerCalled("feedObservation")
                  /\ ~ExpectedChanges
                  /\ tuner.iterations + 1 = BucketSize
                  /\ tuner'.iterations = 0
                  /\ tuner'.epoch = tuner.epoch + 1]_vars

\* C24 witness: an annealing tuner that was reset in its first dwell has
\* moved to another state at the end of its second dwell.
C24_Witness ==
    /\ tuner.kind = "StochasticTuner"
    /\ tunerCall[1] = "feedObservation"
    /\ tunerLog.resets = 1
    /\ tuner.epoch = 2
    /\ tuner.iterations = 0
    /\ tuner.state # tuner.prevState

\* this._temperature <= 1e-5
AtMostEpsilon(t) == Temperature(t)[1] <= Temperature(t)[2]

\* the call is feedObservation() of an annealing tuner
AnnealingFed == TunerCalled("feedObservation") /\ tuner.kind = "StochasticTuner"

\* the call completes a dwell
CompletesDwell == tuner'.epoch = tuner.epoch + 1

\* C25: a simulated-annealing tuner's temperature is multiplied by alpha
\* exactly once every K completed dwells (K = iterations per temperature) and
\* is unchanged otherwise, and finished() holds exactly when the temperature
\* is at most the epsilon 1e-5.
C25_CoolsEveryKDwells ==
    [][AnnealingFed
            => /\ tuner'.temperature =
                    IF CompletesDwell
                          /\ tunerLog.dwells + 1 = tuner.maxIterationsPerTemperature
                    THEN tuner.temperature + 1 ELSE tuner.temperature
               /\ Finished(tuner') <=> AtMostEpsilon(tuner')]_vars

\* C25 (amended): while the tuner is not finished, its temperature is
\* multiplied by alpha exactly once every K completed dwells, counted from
\* the construction, the last multiplication or the last reset, and is
\* unchanged by the other calls of feedObservation; once finished the
\* temperature is no longer multiplied; reset() restores the initial
\* temperature; finished() holds exactly when the temperature is at most the
\* epsilon 1e-5.
C25_CoolsEveryKDwellsUntilFinished ==
    [][/\ AnnealingFed
            => /\ tuner'.temperature =
                    IF CompletesDwell
                          /\ ~AtMostEpsilon(tuner)
                          /\ tunerLog.dwells + 1 = tuner.maxIterationsPerTemperature
                    THEN tuner.temperature + 1 ELSE tuner.temperature
               /\ Finished(tuner') <=> AtMostEpsilon(tuner')
       /\ (TunerCalled("reset") /\ tuner.kind = "StochasticTuner")
            => /\ Temperature(tuner') = <<tuner.initialTemperature, 1>>
               /\ Finished(tuner') <=> AtMostEpsilon(tuner')]_vars

\* C25 witness: an annealing tuner of temperature 2e-5, alpha 0.5 and K = 1
\* has completed two dwells and its temperature was multiplied once: it was
\* finished in the second.
C25_Witness ==
    /\ tuner.kind = "StochasticTuner"
    /\ tunerCall[1] = "feedObservation"
    /\ tuner.initialTemperature = 2
    /\ tuner.alpha = <<1, 2>>
    /\ tuner.maxIterationsPerTemperature = 1
    /\ tuner.epoch = 2
    /\ tuner.temperature = 1
    /\ Finished(tuner)

\* the initial temperature of the tuner multiplied n times by alpha is at
\* most 1e-5
CoolAfter(n) ==
    tuner.initialTemperature * Power(tuner.alpha[1], n) <= Power(tuner.alpha[2], n)

\* the value the tuner presents is next to the state of least cost
NearTarget == Abs(tuner.state - Target) <= 1

\* the best state of the tuner costs no more than its initial state
BestNoWorse == Cost(tuner.bestState) <= Cost(tuner.initialState)

C27_GoldenSectionStarts ==
    (Len(tunerCall) >= 2 /\ tunerCall[1] = "new" /\ tunerCall[2] = "GoldenSectionTuner")
        => /\ Len(tunerCall) = 2
           /\ tuner.kind = "GoldenSectionTuner"
           /\ <<tuner.xlo, tuner.xhi>> = <<MinState, MaxState>>

\* C28: after feedObservation(observed, expected) is called on a sensitivity
\* tuner whose previous expected value differs from expected, the epoch
\* counter and the iteration counter are both zero.
C28_CountersZero ==
    [][ExpectedChanges => (tuner'.epoch = 0 /\ tuner'.iterations = 0)]_vars

\* C28 (amended): after feedObservation(observed, expected) is called on a
\* sensitivity tuner whose previous expected value differs from expected,
\* the epoch counter is zero and the iteration counter is 1, the observation
\* of the call being the first of the new dwell; the iteration counter is
\* zero when the observation is discarded as noise (it is more than twice
\* the last one in absolute value).
C28_CountersRestart ==
    [][ExpectedChanges
            => /\ tuner'.epoch = 0
               /\ tuner'.iterations =
                    IF PossibleNoise(tuner, tunerCall'[2]) THEN 0 ELSE 1]_vars

\* C28 witness: a sensitivity tuner that had completed a dwell was fed an
\* observation with another expected value: it is in its initial state, in
\* epoch 0, and has counted the observation.
C28_Witness ==
    /\ tuner.kind = "SensitivityTuner"
    /\ tunerCall[1] = "feedObservation"
    /\ tuner.expected = <<tunerCall[3]>>
    /\ tunerLog = [fed |-> 1, dwells |-> 0, resets |-> 1]
    /\ tuner.costOfBestState # Undefined
    /\ tuner.epoch = 0
    /\ tuner.iterations = 1

\* C29: when the expected value changes between two feedObservation calls of
\* a sensitivity tuner, all tuner state is reset: the current and previous
\* states return to the initial state, and the best state, the last
\* observation and every bucket's contents no longer depend on anything fed
\* before the change (the tuner after the call is what the call makes of a
\* tuner just constructed with the same initial state).
C29_ResetsAllState ==
    [][ExpectedChanges
            => tuner' = SensitivityFeedObservation(SensitivityTuner(tuner.initialState),
                                                   tunerCall'[2], tunerCall'[3], NoDraw)]_vars

\* C39: once a simulated-annealing tuner reports finished(), the next
\* completed dwell sets currentValue() to the best-ever state, and
\* currentValue() and finished() then stay unchanged on every later
\* observation until reset() is called.
C39_FinishedPresentsBest ==
    [][(AnnealingFed /\ Finished(tuner))
            => /\ Finished(tuner')
               /\ tuner'.bestState = tuner.bestState
               /\ tuner'.state = IF CompletesDwell THEN tuner.bestState ELSE tuner.state
               /\ tuner.state = tuner.bestState => tuner'.state = tuner.state]_vars

\* C39 witness: an annealing tuner that was finished at the end of its first
\* dwell, presenting another state than its best one, has completed a second
\* dwell and presents its best state.
C39_Witness ==
    /\ tuner.kind = "StochasticTuner"
    /\ tunerCall[1] = "feedObservation"
    /\ tuner.maxIterationsPerTemperature = 1
    /\ tuner.temperature = 1
    /\ Finished(tuner)
    /\ tuner.epoch = 2
    /\ tuner.iterations = 0
    /\ tuner.state = tuner.bestState
    /\ tuner.prevState # tuner.bestState

ResizedTo(w, h) ==
    \A i \in 1 .. Len(pixels) :
        /\ DOMAIN pixels'[i] = (1 .. w) \X (1 .. h)
        /\ \A p \in DOMAIN pixels'[i] \cap DOMAIN pixels[i] :
                pixels'[i][p] = pixels[i][p]

\* C11 (as stated): after resize(w2, h2), w2 and h2 at least 1, every backing
\* texture has size exactly (w2, h2) and its region overlapping the old size
\* has the old content.
C11_ResizePreserves ==
    [][\A w, h \in 1 .. MaxSize : Resize(w, h) => ResizedTo(w, h)]_vars

\* C11 (amended): after resize(w2, h2) on a context that is not lost, every
\* backing texture has size (max(1, w2), max(1, h2)) and its region
\* overlapping the old size has the old content; on a lost context the
\* textures are left as they were.
C11_ResizePreservesUnlessLost ==
    [][/\ lost => pixels' = pixels
       /\ \A w, h \in 0 .. MaxSize :
            LET w1 == IF w < 1 THEN 1 ELSE w
                h1 == IF h < 1 THEN 1 ELSE h
            IN  (~lost /\ width' = w1 /\ height' = h1 /\ Resize(w, h))
                    => ResizedTo(w1, h1)]_vars

\* C11 witness: a ping-pong pair that was rendered into once at a smaller
\* size was enlarged; the first texture kept its rendered pixel and is blank
\* elsewhere, the second is blank.
C11_Witness ==
    /\ resizeResult = "resized"
    /\ ~lost
    /\ Len(pixels) = 2
    /\ DOMAIN pixels[1] = (1 .. MaxSize) \X (1 .. MaxSize)
    /\ pixels[1][<<1, 1>>] = Shade(<<1, 1>>)
    /\ pixels[1][<<MaxSize, MaxSize>>] = Blank
    /\ pixels[2][<<1, 1>>] = Blank

(***************************************************************************)
(* Properties of SpeedyPipeline                                            *)
(***************************************************************************)
\* blur(), concat() and release() on two pipelines
NextConcat ==
    \E p \in Pipelines :
        \/ \E filter \in Filters : Blur(p, filter)
        \/ \E q \in Pipelines : Concat(p, q)
        \/ Release(p)

SpecConcat == InitTuner /\ [][NextConcat]_vars

\* C31: p.concat(q) leaves in p the operations p had, in order, followed by
\* the operations q had, in order, so that the length of p becomes the sum
\* of the two lengths; when q is p the length of p doubles; another
\* pipeline q is left as it was.
C31_ConcatAppends ==
    [][\A p, q \in Pipelines :
          pipelineCall' = <<"concat", p, q>> =>
             /\ operations'[p] = operations[p] \o operations[q]
             /\ Len(operations'[p]) = Len(operations[p]) + Len(operations[q])
             /\ (q = p => Len(operations'[p]) = 2 * Len(operations[p]))
             /\ (q # p => operations'[q] = operations[q])]_vars

\* C31 witness: a pipeline of two different operations was concatenated
\* with itself and holds the two operations twice, in order, while the
\* other pipeline holds an operation of its own.
C31_Witness ==
    /\ pipelineCall = <<"concat", "pipeline", "pipeline">>
    /\ Length("pipeline") = 4
    /\ operations["pipeline"][1] # operations["pipeline"][2]
    /\ operations["pipeline"][3] = operations["pipeline"][1]
    /\ operations["pipeline"][4] = operations["pipeline"][2]
    /\ Length("pl") = 1

\* convolve() with arrays of every length up to MaxKernelLength, and
\* release()
NextConvolve ==
    \/ \E len \in 0 .. MaxKernelLength : Convolve("pipeline", len)
    \/ Release("pipeline")

SpecConvolve == InitTuner /\ [][NextConvolve]_vars

\* the lengths of the square kernels of side 3, 5 and 7
SquareLengths == {3 * 3, 5 * 5, 7 * 7}

\* C32: convolve(kernel), the kernel an array of numbers, throws for every
\* kernel whose length is not 9, 25 or 49 (so for the empty kernel and for
\* the square kernels of even side) and adds nothing to the pipeline; for a
\* kernel of 9, 25 or 49 numbers it returns and the pipeline holds one more
\* operation, a convolution of side 3, 5 or 7.
C32_ConvolveThrows ==
    [][pipelineCall'[1] = "convolve" =>
          LET len == pipelineCall'[3]
          IN  IF len \in SquareLengths
              THEN /\ pipelineCall'[4] = "returned"
                   /\ \E size \in {3, 5, 7} :
                         /\ size * size = len
                         /\ operations'["pipeline"] =
                               Append(operations["pipeline"], <<"convolve", size>>)
              ELSE /\ pipelineCall'[4] = "SpeedyError"
                   /\ operations' = operations]_vars

\* C32 witness: a pipeline that holds a 3x3, a 5x5 and a 7x7 convolution
\* was given a 6x6 kernel; the call threw.
C32_Witness ==
    /\ pipelineCall = <<"convolve", "pipeline", 36, "SpeedyError">>
    /\ operations["pipeline"] = <<<<"convolve", 3>>, <<"convolve", 5>>, <<"convolve", 7>>>>

(***************************************************************************)
(* Properties of the property expected                                     *)
(***************************************************************************)
\* assignments to expected and reads of it, in any order
NextExpected ==
    \/ \E value \in AssignedValues : SetExpected(value)
    \/ GetExpected

SpecExpected == InitTuner /\ [][NextExpected]_vars

\* C33: after any sequence of assignments to expected, a read of expected
\* does not throw; it returns undefined when automatic sensitivity is
\* disabled and the object {number, tolerance} of the controller when it
\* is enabled.
C33_ExpectedRead ==
    (algorithmCall # << >> /\ algorithmCall[1] = "get") =>
        algorithmCall[2] =
            IF automaticSensitivity = Null THEN <<"undefined">>
            ELSE <<"object", automaticSensitivity[1].expected,
                   automaticSensitivity[1].tolerance>>

====
